---- MODULE Spec2Model ----
(***************************************************************************)
(* A model of the ADI stack of probe-rs:                                   *)
(*   - the DP/AP transaction layer (communication_interface.rs): the       *)
(*     SELECT cache, DP version gating, power-up and AP enumeration;       *)
(*   - the Cortex-M core control layer (core/m4.rs).                       *)
(* A 32-bit register value is modelled bit-exactly as the set of the bit   *)
(* positions that are 1 (TLC's integers are 32-bit signed, so bit 31 has   *)
(* no integer representation).                                             *)
(***************************************************************************)
EXTENDS Integers, Sequences, FiniteSets, TLC

\* ------------------------------------------------------------------ bounds
\* the number of access ports the modelled target can have (ports 0..MaxAps-1)
MaxAps == 2
\* the number of ArmCommunicationInterface::new calls made on an uninitialized state
MaxAttempts == 2
\* the longest values array handed to a ..._repeated call
MaxBlock == 2

\* ------------------------------------------------------------ 32-bit words
RECURSIVE SumBits(_, _)
SumBits(S, lo) ==
  IF S = {} THEN 0
  ELSE LET b == CHOOSE x \in S : TRUE IN 2^(b - lo) + SumBits(S \ {b}, lo)

\* the value of the bit field [hi:lo] of word v
Field(v, hi, lo) == SumBits({b \in v : b >= lo /\ b <= hi}, lo)

\* the word that holds the 16-bit number n in the bits starting at lo
BitsOf(n, lo) == {lo + i : i \in {j \in 0..15 : (n \div 2^j) % 2 = 1}}

\* word v with the field [hi:lo] replaced by the number n
SetField(v, hi, lo, n) == {b \in v : b < lo \/ b > hi} \cup {b \in BitsOf(n, lo) : b <= hi}

\* ------------------------------------------------------------------ errors
Ok == "Ok"
TransportErrors == {"FaultResponse", "WaitResponse", "Io"}

\* ------------------------------------------------------------------- ports
DebugPort == [dp |-> TRUE, n |-> 0]
AccessPort(n) == [dp |-> FALSE, n |-> n]

\* From<u16> for PortType without the reserved value
PortFromU16_no_reserved(v) == AccessPort(v)

\* PortType -> u16 and back
PortToU16(p) == IF p.dp THEN 65535 ELSE p.n
PortFromU16(v) == IF v = 65535 THEN DebugPort ELSE AccessPort(v)

\* ------------------------------------------------- DP register descriptors
\* DebugPortVersion, ordered as the derived PartialOrd orders its variants
VersionRank(v) ==
  CASE v = "DPv0" -> 0 [] v = "DPv1" -> 1 [] v = "DPv2" -> 2 [] OTHER -> 3

\* DebugPortVersion::from(u8)
VersionFrom(n) ==
  CASE n = 0 -> "DPv0" [] n = 1 -> "DPv1" [] n = 2 -> "DPv2" [] OTHER -> "Unsupported"

DontCare == 0 - 1

\* R::ADDRESS of a DP register
DP_ADDRESS(R) ==
  CASE R = "DPIDR" -> 0 [] R = "ABORT" -> 0 [] R = "CTRL" -> 4
    [] R = "SELECT" -> 8 [] R = "TARGETID" -> 4

\* R::DP_BANK of a DP register (DontCare, or the bank number)
DP_BANK(R) ==
  CASE R = "CTRL" -> 0 [] R = "TARGETID" -> 2 [] OTHER -> DontCare

\* R::VERSION of a DP register
DP_VERSION(R) == IF R = "TARGETID" THEN "DPv2" ELSE "DPv1"

\* Abort with orunerrclr, wderrclr, stkerrclr and stkcmpclr set
AbortClearAll == {4, 3, 2, 1}
\* Ctrl with csyspwrupreq and cdbgpwrupreq set
CtrlPowerUpReq == {30, 28}
csyspwrupack(v) == 31 \in v
cdbgpwrupack(v) == 29 \in v
\* CTRL/STAT.STICKYERR
StickyErrBit == {5}

\* Select with the three fields set
SelectWord(ap_sel, ap_bank_sel, dp_bank_sel) ==
  BitsOf(ap_sel, 24) \cup BitsOf(ap_bank_sel, 4) \cup BitsOf(dp_bank_sel, 0)
ap_sel(v) == Field(v, 31, 24)
ap_bank_sel(v) == Field(v, 7, 4)
dp_bank_sel(v) == Field(v, 3, 0)

\* ------------------------------------------------- AP register descriptors
\* R::ADDRESS of an AP register
AP_ADDRESS(R) ==
  CASE R = "CSW" -> 0 [] R = "TAR" -> 4 [] R = "DRW" -> 12
    [] R = "BASE2" -> 240 [] R = "BASE" -> 248 [] R = "IDR" -> 252

\* R::APBANKSEL of an AP register: bits [7:4] of its address
APBANKSEL(R) == AP_ADDRESS(R) \div 16

\* IDR of a memory AP (CLASS = MEMAP, bits [16:13] = 0b1000), of another AP, of no AP
IdrMemAp == {16, 17, 0}
IdrOther == {17}
IdrZero == {}
IdrIsMemAp(v) == Field(v, 16, 13) = 8

\* BASE: Format is bit 1 (1 = ADIv5), BASEADDR is bits [31:12]
BaseIsADIv5(v) == 1 \in v

\* CSW.SIZE is bits [2:0]; U8 = 0, U32 = 2
SizeU8 == 0
SizeU32 == 2
CswSize(v) == Field(v, 2, 0)

\* ------------------------------------------------------------------- state
VARIABLES
  has_dap,    \* probe.has_dap_interface()
  chip,       \* what the target is: DPIDR version, its APs
  state,      \* ArmCommunicationInterfaceState
  target,     \* the target's debug port: SELECT, sticky error flag, each AP's CSW
  log,        \* the transport transactions of the last operation, in order
  lastop,     \* the last operation, its arguments and its result
  pre,        \* state, target and marks as they were before the last operation
  marks,      \* what happened so far in the session (for the properties only)
  attempts,   \* ArmCommunicationInterface::new calls made while uninitialized
  core,       \* CortexState
  mcu,        \* the target's core debug registers: DHCSR.C_DEBUGEN, DEMCR
  dl,         \* download_hex: where the call is, its locals, the records it took
  mem         \* the target's memory AP: TAR, and the words of the RAM

dapvars == <<has_dap, chip, state, target, log, lastop, pre, marks, attempts>>
corevars == <<core, mcu>>
flashvars == <<dl, mem>>

\* no download_hex call was made
NoDownload ==
  [pc |-> "none", page_size |-> 0, checked |-> FALSE, linear |-> 0, seg |-> 0,
   total |-> 0, polls |-> 0, addr |-> 0, recs |-> <<>>]
\* no memory of the target is modelled
NoMem == [tar |-> 0, ram |-> <<>>]

\* ArmCommunicationInterfaceState::new
NewState ==
  [initialized |-> FALSE,
   debug_port_version |-> "Unsupported",
   current_dpbanksel |-> 0,
   current_apsel |-> 0,
   current_apbanksel |-> 0,
   ap_information |-> <<>>]

\* the target's debug port after a power-on reset
ResetTarget ==
  [select |-> {},
   stickyerr |-> FALSE,
   csw |-> [p \in 0..(MaxAps - 1) |-> BitsOf(SizeU32, 0)]]

\* CortexState::new
NewCortexState ==
  [initialized |-> FALSE,
   hw_breakpoints_enabled |-> FALSE,
   current_state |-> [status |-> "Unknown", reason |-> "None"]]

\* the core debug registers after a power-on reset
ResetMcu == [c_debugen |-> FALSE, demcr |-> {}]

NoMarks ==
  [dirty |-> FALSE,      \* the last SELECT write of select_* failed
   n_abort |-> 0,        \* power-up transactions issued so far, by kind
   n_select |-> 0,
   n_pwrreq |-> 0,
   ran |-> FALSE]        \* the last call of the core layer was a successful run()

\* ------------------------------------------------------- the call context
\* A call threads a context through the functions it calls: the state, the
\* target, the transactions so far, the Result so far (err), the last value
\* read (ret), and the inputs the environment chose for this call:
\*   fail        the number of the transaction the transport fails (0: none)
\*   failKind    with which error
\*   junk        what a data register (DRW, TAR) reads as
\*   ack         the acknowledge bits CTRL/STAT reads with
\* clean says that the power-up of this call succeeded and no transaction of
\* the call failed since.
Ctx(inp) ==
  [s |-> state, t |-> target, log |-> <<>>, err |-> Ok, ret |-> {},
   vals |-> <<>>, aps |-> <<>>, flag |-> FALSE, info |-> <<>>, clean |-> FALSE,
   m |-> marks,
   inp |-> inp]

Inputs(maxTx, junks, acks) ==
  {i \in [fail : 0..maxTx, failKind : TransportErrors, junk : junks, ack : acks] :
     i.fail = 0 => i.failKind = "Io"}

Junks == {IdrZero, IdrOther, IdrMemAp}
Acks == SUBSET {31, 29}

\* ------------------------------------------------------------- the target
\* what the target answers to a read of (port, addr)
TargetRead(c, port, addr) ==
  IF port.dp
  THEN CASE addr = 0 -> BitsOf(chip.dpidr_version, 12) \cup {0}
         [] addr = 4 /\ dp_bank_sel(c.t.select) = 0 ->
              c.inp.ack \cup (IF c.t.stickyerr THEN StickyErrBit ELSE {})
         [] addr = 4 /\ dp_bank_sel(c.t.select) = 2 -> {0}
         [] OTHER -> {}
  ELSE LET ap == ap_sel(c.t.select)
           bank == ap_bank_sel(c.t.select)
           a == addr % 16
       IN  CASE ap >= chip.naps -> {}
             [] bank = 15 /\ a = 12 ->
                  IF chip.memap[ap] THEN IdrMemAp ELSE IdrOther
             [] bank = 15 /\ a = 8 -> IF chip.base_adiv5 THEN {12, 1, 0} ELSE {12}
             [] bank = 15 /\ a = 0 -> {}
             [] bank = 0 /\ a = 0 -> c.t.csw[ap]
             [] OTHER -> c.inp.junk

\* the target after a write of val to (port, addr) that reached it
TargetWrite(t, port, addr, val) ==
  IF port.dp
  THEN CASE addr = 0 -> IF 2 \in val THEN [t EXCEPT !.stickyerr = FALSE] ELSE t
         [] addr = 8 -> [t EXCEPT !.select = val]
         [] OTHER -> t
  ELSE LET ap == ap_sel(t.select)
           bank == ap_bank_sel(t.select)
           a == addr % 16
       IN  IF ap < chip.naps /\ bank = 0 /\ a = 0 /\ ~chip.only32
           THEN [t EXCEPT !.csw[ap] = val]
           ELSE t

\* ----------------------------------------------------------- the transport
NoReq == [port |-> 0, bank |-> 0]

\* the rest F of a function runs on c unless c holds an error (the ? operator)
Then(c, F(_)) == IF c.err # Ok THEN c ELSE F(c)

\* DAPAccess::read_register / write_register: one transaction on the wire.
\* req is the (port, bank) the caller asked for (AP accesses only).
\* A FAULT or WAIT response means that the target has not taken the transfer; a
\* write that ends in an I/O error (the response is lost) has reached the target.
Transfer(c, port, addr, w, val, req) ==
  LET failing == (Len(c.log) + 1 = c.inp.fail)
      rv == IF w THEN val ELSE TargetRead(c, port, addr)
      t1 == IF w /\ (~failing \/ c.inp.failKind = "Io")
            THEN TargetWrite(c.t, port, addr, val) ELSE c.t
  IN  [c EXCEPT !.t = IF failing /\ ~port.dp /\ c.inp.failKind = "FaultResponse"
                      THEN [t1 EXCEPT !.stickyerr = TRUE] ELSE t1,
                !.log = Append(@, [port |-> port, addr |-> addr, w |-> w, val |-> rv,
                                   ok |-> ~failing, tsel |-> c.t.select, req |-> req,
                                   clean |-> c.clean]),
                !.err = IF failing THEN c.inp.failKind ELSE Ok,
                !.ret = IF failing THEN {} ELSE rv,
                !.clean = @ /\ ~failing]

read_register(c, port, addr, req) == Transfer(c, port, addr, FALSE, {}, req)
write_register(c, port, addr, val, req) == Transfer(c, port, addr, TRUE, val, req)

\* DAPAccess::write_block, the default implementation
RECURSIVE write_block(_, _, _, _, _)
write_block(c, port, addr, values, req) ==
  IF values = <<>> THEN c
  ELSE Then(write_register(c, port, addr, Head(values), req),
            LAMBDA c1 : write_block(c1, port, addr, Tail(values), req))

\* DAPAccess::read_block, the default implementation (n = values.len())
RECURSIVE read_block(_, _, _, _, _)
read_block(c, port, addr, n, req) ==
  IF n = 0 THEN c
  ELSE Then(read_register(c, port, addr, req),
            LAMBDA c1 : read_block([c1 EXCEPT !.vals = Append(@, c1.ret)],
                                   port, addr, n - 1, req))

\* ------------------------------------------------------------ the DP layer
RECURSIVE write_dp_register(_, _, _)

\* whether the last transaction of c is a SELECT write that the transport failed
SelectWriteFailed(c) ==
  /\ c.err \in TransportErrors
  /\ c.log # <<>>
  /\ c.log[Len(c.log)].port.dp
  /\ c.log[Len(c.log)].w
  /\ c.log[Len(c.log)].addr = 8

MarkSelect(c) == [c EXCEPT !.m.dirty = SelectWriteFailed(c)]

\* ArmCommunicationInterface::select_dp_bank
select_dp_bank(c, dp_bank) ==
  IF dp_bank = DontCare \/ dp_bank = c.s.current_dpbanksel THEN c
  ELSE MarkSelect(write_dp_register(
         [c EXCEPT !.s.current_dpbanksel = dp_bank], "SELECT",
         SelectWord(c.s.current_apsel, c.s.current_apbanksel, dp_bank)))

\* DPAccess::write_dp_register
write_dp_register(c, R, value) ==
  IF VersionRank(DP_VERSION(R)) > VersionRank(c.s.debug_port_version)
  THEN [c EXCEPT !.err = "UnsupportedRegister"]
  ELSE Then(select_dp_bank(c, DP_BANK(R)),
            LAMBDA c1 : write_register(c1, DebugPort, DP_ADDRESS(R), value, NoReq))

\* read_dp_register without the check of the register's version
read_dp_register_ungated(c, R) ==
  Then(select_dp_bank(c, DP_BANK(R)),
       LAMBDA c1 : read_register(c1, DebugPort, DP_ADDRESS(R), NoReq))

\* DPAccess::read_dp_register
read_dp_register(c, R) ==
  IF VersionRank(DP_VERSION(R)) > VersionRank(c.s.debug_port_version)
  THEN [c EXCEPT !.err = "UnsupportedRegister"]
  ELSE Then(select_dp_bank(c, DP_BANK(R)),
            LAMBDA c1 : read_register(c1, DebugPort, DP_ADDRESS(R), NoReq))

\* ------------------------------------------------------------ the AP layer
\* select_ap_and_ap_bank without the comparison with the cache
select_ap_and_ap_bank_always(c, port, ap_bank) ==
  MarkSelect(write_dp_register(
    [c EXCEPT !.s.current_apsel = port, !.s.current_apbanksel = ap_bank],
    "SELECT", SelectWord(port, ap_bank, c.s.current_dpbanksel)))

\* ArmCommunicationInterface::select_ap_and_ap_bank
select_ap_and_ap_bank(c, port, ap_bank) ==
  IF c.s.current_apsel # port \/ c.s.current_apbanksel # ap_bank
  THEN MarkSelect(write_dp_register(
         [c EXCEPT !.s.current_apsel = port, !.s.current_apbanksel = ap_bank],
         "SELECT", SelectWord(port, ap_bank, c.s.current_dpbanksel)))
  ELSE c

ApReq(port, R) == [port |-> port, bank |-> APBANKSEL(R)]

\* ArmCommunicationInterface::write_ap_register
write_ap_register(c, port, R, value) ==
  Then(select_ap_and_ap_bank(c, port, APBANKSEL(R)),
       LAMBDA c1 : write_register(c1, AccessPort(c1.s.current_apsel), AP_ADDRESS(R),
                                  value, ApReq(port, R)))

\* write_ap_register_repeated that addresses the AP that was selected before
write_ap_register_repeated_stale_port(c, port, R, values) ==
  Then(select_ap_and_ap_bank(c, port, APBANKSEL(R)),
       LAMBDA c1 : write_block(c1, AccessPort(c.s.current_apsel), AP_ADDRESS(R),
                               values, ApReq(port, R)))

\* ArmCommunicationInterface::write_ap_register_repeated
write_ap_register_repeated(c, port, R, values) ==
  Then(select_ap_and_ap_bank(c, port, APBANKSEL(R)),
       LAMBDA c1 : write_block(c1, AccessPort(c1.s.current_apsel), AP_ADDRESS(R),
                               values, ApReq(port, R)))

\* ArmCommunicationInterface::read_ap_register
read_ap_register(c, port, R) ==
  Then(select_ap_and_ap_bank(c, port, APBANKSEL(R)),
       LAMBDA c1 : read_register(c1, AccessPort(c1.s.current_apsel), AP_ADDRESS(R),
                                 ApReq(port, R)))

\* ArmCommunicationInterface::read_ap_register_repeated (n = values.len())
read_ap_register_repeated(c, port, R, n) ==
  Then(select_ap_and_ap_bank(c, port, APBANKSEL(R)),
       LAMBDA c1 : read_block(c1, AccessPort(c1.s.current_apsel), AP_ADDRESS(R), n,
                              ApReq(port, R)))

\* ap_supports_only_32bit_access; the answer is left in flag
ap_supports_only_32bit_access(c, ap) ==
  Then(read_ap_register(c, ap, "CSW"), LAMBDA c1 :
  Then(write_ap_register(c1, ap, "CSW", SetField(c1.ret, 2, 0, SizeU8)), LAMBDA c2 :
  Then(read_ap_register(c2, ap, "CSW"), LAMBDA c3 :
  [c3 EXCEPT !.flag = (CswSize(c3.ret) # SizeU8)])))

MemoryAp(port_number, only_32bit_data_size, hi, lo) ==
  [kind |-> "MemoryAp", port_number |-> port_number,
   only_32bit_data_size |-> only_32bit_data_size,
   debug_base_address |-> [hi |-> hi, lo |-> lo]]
Other(port_number) ==
  [kind |-> "Other", port_number |-> port_number,
   only_32bit_data_size |-> FALSE,
   debug_base_address |-> [hi |-> {}, lo |-> {}]]

\* the part of read_ap_information that follows the read of BASE (its value: base)
ReadMemoryApInformation(c, access_port, base) ==
  Then(IF BaseIsADIv5(base) THEN read_ap_register(c, access_port, "BASE2")
       ELSE [c EXCEPT !.ret = {}], LAMBDA c3 :
  Then(ap_supports_only_32bit_access([c3 EXCEPT !.vals = <<c3.ret>>], access_port),
       LAMBDA c4 :
  [c4 EXCEPT !.vals = <<>>,
             !.info = MemoryAp(access_port, c4.flag, c4.vals[1],
                               {b \in base : b >= 12})]))

\* ArmCommunicationInterface::read_ap_information; the ApInformation is left in info
read_ap_information(c, access_port) ==
  Then(read_ap_register(c, access_port, "IDR"), LAMBDA c1 :
  IF ~IdrIsMemAp(c1.ret) THEN [c1 EXCEPT !.info = Other(access_port)]
  ELSE Then(read_ap_register(c1, access_port, "BASE"), LAMBDA c2 :
            ReadMemoryApInformation(c2, access_port, c2.ret)))

\* valid_access_ports: the ports from p on whose IDR reads without error and not as
\* zero, up to the first that does not; an error ends the walk, it is not returned
\* (new uses the result as a plain list). The list is left in aps.
RECURSIVE valid_access_ports(_, _)
ValidAccessPortsStep(c1, p) ==
  IF c1.err # Ok \/ c1.ret = {} THEN [c1 EXCEPT !.err = Ok]
  ELSE valid_access_ports([c1 EXCEPT !.aps = Append(@, p)], p + 1)
valid_access_ports(c, p) ==
  IF p > 255 THEN c
  ELSE ValidAccessPortsStep(read_ap_register(c, p, "IDR"), p)

\* --------------------------------------------------------------- power-up
\* get_debug_port_version; the DPIDR word is left in ret
get_debug_port_version(c) == read_register(c, DebugPort, 0, NoReq)

\* enter_debug_mode that requests the power-up before it clears the sticky errors
enter_debug_mode_power_first(c) ==
  Then(get_debug_port_version(c), LAMBDA c1 :
  Then(read_dp_register(
         [c1 EXCEPT !.s.debug_port_version = VersionFrom(Field(c1.ret, 15, 12))],
         "DPIDR"), LAMBDA c3 :
  Then(write_dp_register(c3, "CTRL", CtrlPowerUpReq), LAMBDA c4 :
  Then(write_dp_register(c4, "ABORT", AbortClearAll), LAMBDA c5 :
  Then(write_dp_register(c5, "SELECT", SelectWord(0, 0, 0)), LAMBDA c6 :
  Then(read_dp_register(c6, "CTRL"), LAMBDA c7 :
  IF ~(csyspwrupack(c7.ret) /\ cdbgpwrupack(c7.ret))
  THEN [c7 EXCEPT !.err = "TargetPowerUpFailed"]
  ELSE c7))))))

\* ArmCommunicationInterface::enter_debug_mode
enter_debug_mode(c) ==
  Then(get_debug_port_version(c), LAMBDA c1 :
  Then(read_dp_register(
         [c1 EXCEPT !.s.debug_port_version = VersionFrom(Field(c1.ret, 15, 12))],
         "DPIDR"), LAMBDA c3 :
  Then(write_dp_register(c3, "ABORT", AbortClearAll), LAMBDA c4 :
  Then(write_dp_register(c4, "SELECT", SelectWord(0, 0, 0)), LAMBDA c5 :
  Then(write_dp_register(c5, "CTRL", CtrlPowerUpReq), LAMBDA c6 :
  Then(read_dp_register(c6, "CTRL"), LAMBDA c7 :
  IF ~(csyspwrupack(c7.ret) /\ cdbgpwrupack(c7.ret))
  THEN [c7 EXCEPT !.err = "TargetPowerUpFailed"]
  ELSE c7))))))

\* the loop of new over the valid access ports
RECURSIVE read_all_ap_information(_, _)
read_all_ap_information(c, aps) ==
  IF aps = <<>> THEN c
  ELSE Then(read_ap_information(c, Head(aps)), LAMBDA c1 :
            read_all_ap_information(
              [c1 EXCEPT !.s.ap_information = Append(@, c1.info)], Tail(aps)))

\* the transactions of a log that write the DP register at addr
DpWrites(l, addr) == {i \in 1..Len(l) : l[i].port.dp /\ l[i].w /\ l[i].addr = addr}

\* the session's marks after the enter_debug_mode that ended in c
MarkPowerUp(c) ==
  [c EXCEPT !.m.n_abort = @ + Cardinality(DpWrites(c.log, 0)),
            !.m.n_select = @ + Cardinality(DpWrites(c.log, 8)),
            !.m.n_pwrreq = @ + Cardinality(DpWrites(c.log, 4)),
            !.clean = (c.err = Ok)]

\* new without the check of initialized
new_always(c) ==
  Then(MarkPowerUp(enter_debug_mode(c)), LAMBDA c1 :
  Then(valid_access_ports(c1, 0), LAMBDA c2 :
  Then(read_all_ap_information(c2, c2.aps), LAMBDA c3 :
  [c3 EXCEPT !.s.initialized = TRUE])))

\* ArmCommunicationInterface::new, when the probe has a DAP interface
new(c) ==
  IF c.s.initialized THEN c
  ELSE Then(MarkPowerUp(enter_debug_mode(c)), LAMBDA c1 :
       Then(valid_access_ports(c1, 0), LAMBDA c2 :
       Then(read_all_ap_information(c2, c2.aps), LAMBDA c3 :
       [c3 EXCEPT !.s.initialized = TRUE])))

\* ------------------------------------------------------------- operations
Op(name, port, reg, n) == [name |-> name, port |-> port, reg |-> reg, n |-> n]
NoOp == Op("none", 0, "", 0)
NoStatus == [status |-> "None", reason |-> "None"]
NoResult == [op |-> NoOp, err |-> Ok, ret |-> {}, vals |-> <<>>, res |-> NoStatus]
NoPre == [s |-> NewState, t |-> ResetTarget, m |-> NoMarks,
          k |-> NewCortexState, u |-> ResetMcu]

\* the chips of the model: a DPIDR version and naps access ports, of which port 0
\* is a memory AP, either one with 32-bit accesses only and a legacy BASE, or one
\* with byte accesses and an ADIv5 BASE
Chips ==
  {ch \in [dpidr_version : 0..2, naps : 0..MaxAps,
           memap : [0..(MaxAps - 1) -> BOOLEAN],
           base_adiv5 : BOOLEAN, only32 : BOOLEAN] :
     /\ \A p \in 0..(MaxAps - 1) : ch.memap[p] <=> (p = 0 /\ ch.naps > 0)
     /\ ch.base_adiv5 <=> ~ch.only32
     /\ ch.naps = 0 => ch.only32}

Init ==
  /\ has_dap \in BOOLEAN
  /\ chip \in Chips
  /\ state = NewState
  /\ target = ResetTarget
  /\ log = <<>>
  /\ lastop = NoResult
  /\ pre = NoPre
  /\ marks = NoMarks
  /\ attempts = 0
  /\ core = NewCortexState
  /\ mcu = ResetMcu
  /\ dl = NoDownload
  /\ mem = NoMem

\* no call is under observation
Idle == lastop.op.name = "none"

\* the call op ends in context c
Finish(c, op) ==
  /\ state' = c.s
  /\ target' = c.t
  /\ log' = c.log
  /\ marks' = c.m
  /\ lastop' = [op |-> op, err |-> c.err, ret |-> c.ret, vals |-> c.vals,
                res |-> NoStatus]
  /\ pre' = [s |-> state, t |-> target, m |-> marks, k |-> core, u |-> mcu]
  /\ UNCHANGED <<has_dap, chip, core, mcu, dl, mem>>

\* the caller has taken the result: the observation of the call is dropped
Return ==
  /\ ~Idle
  /\ log' = <<>>
  /\ lastop' = NoResult
  /\ pre' = NoPre
  /\ UNCHANGED <<has_dap, chip, state, target, marks, attempts, core, mcu, dl, mem>>

\* the most transactions one new() issues: 6 of the power-up, per port a SELECT
\* and an IDR read, per AP a SELECT and 6 register accesses
MaxNewTx == 6 + 2 * (MaxAps + 1) + 7 * MaxAps

\* ArmCommunicationInterface::new(probe, state), the transport's behaviour drawn
\* from inputs
NewWith(inputs) ==
  /\ Idle
  /\ state.initialized \/ ~has_dap \/ attempts < MaxAttempts
  /\ IF ~has_dap \/ state.initialized
     THEN /\ Finish(IF has_dap THEN new(Ctx(CHOOSE i \in inputs : i.fail = 0))
                    ELSE Ctx(CHOOSE i \in inputs : i.fail = 0),
                    Op("new", 0, "", 0))
          /\ UNCHANGED attempts
     ELSE \E inp \in inputs :
            /\ Finish(new(Ctx(inp)), Op("new", 0, "", 0))
            /\ attempts' = attempts + 1

\* new, on a transport that may fail any one transaction
\* (what a data register reads as matters to new only when it starts from a
\* cache that is not the reset value, and the acknowledge bits only when the
\* CTRL/STAT read is reached)
New ==
  NewWith({i \in Inputs(MaxNewTx, Junks, Acks) :
             /\ (state.current_apsel = 0 /\ state.current_apbanksel = 0)
                  => i.junk = IdrZero
             /\ i.fail # 0 => i.ack = {31, 29}})

\* new, on a transport and a target that do not fail during the attach
Attach == NewWith(Inputs(0, {IdrZero}, {{31, 29}}))

\* ArmCommunicationInterface::reborrow, on an interface that new returned
Reborrow ==
  /\ Idle
  /\ has_dap /\ state.initialized
  /\ Finish(new(Ctx(CHOOSE i \in Inputs(0, {IdrZero}, {{}}) : TRUE)),
            Op("reborrow", 0, "", 0))
  /\ UNCHANGED attempts

\* the ports, registers and values the calls of the model are made with
Ports == 0..(MaxAps - 1)
ApRegs == {"CSW", "IDR"}
Values == {{}, {1}}
DpReadRegs == {"DPIDR", "CTRL", "TARGETID"}
DpWriteRegs == {"ABORT", "CTRL", "TARGETID"}
Blocks == {[i \in 1..n |-> BitsOf(i, 0)] : n \in 0..MaxBlock}

\* the calls below are made on an interface, which only a successful new returns
HasInterface == Idle /\ has_dap /\ state.initialized

ReadApRegister ==
  /\ HasInterface
  /\ \E port \in Ports, R \in ApRegs, inp \in Inputs(2, {IdrZero}, {{}}) :
       /\ Finish(read_ap_register(Ctx(inp), port, R),
                 Op("read_ap_register", port, R, 1))
  /\ UNCHANGED attempts

WriteApRegister ==
  /\ HasInterface
  /\ \E port \in Ports, R \in ApRegs, v \in Values, inp \in Inputs(2, {IdrZero}, {{}}) :
       /\ R # "CSW" => v = {}
       /\ Finish(write_ap_register(Ctx(inp), port, R, v),
              Op("write_ap_register", port, R, 1))
  /\ UNCHANGED attempts

ReadApRegisterRepeated ==
  /\ HasInterface
  /\ \E port \in Ports, n \in 0..MaxBlock, inp \in Inputs(MaxBlock + 1, {IdrOther}, {{}}) :
       /\ inp.fail <= n + 1
       /\ Finish(read_ap_register_repeated(Ctx(inp), port, "DRW", n),
                 Op("read_ap_register_repeated", port, "DRW", n))
  /\ UNCHANGED attempts

WriteApRegisterRepeated ==
  /\ HasInterface
  /\ \E port \in Ports, values \in Blocks,
        inp \in Inputs(MaxBlock + 1, {IdrZero}, {{}}) :
       /\ inp.fail <= Len(values) + 1
       /\ Finish(write_ap_register_repeated(Ctx(inp), port, "DRW", values),
                 Op("write_ap_register_repeated", port, "DRW", Len(values)))
  /\ UNCHANGED attempts

ReadDpRegister ==
  /\ HasInterface
  /\ \E R \in DpReadRegs, inp \in Inputs(2, {IdrZero}, {{31, 29}}) :
       Finish(read_dp_register(Ctx(inp), R), Op("read_dp_register", 0, R, 1))
  /\ UNCHANGED attempts

WriteDpRegister ==
  /\ HasInterface
  /\ \E R \in DpWriteRegs, inp \in Inputs(2, {IdrZero}, {{}}) :
       Finish(write_dp_register(Ctx(inp), R,
                IF R = "ABORT" THEN AbortClearAll
                ELSE IF R = "CTRL" THEN CtrlPowerUpReq ELSE {}),
              Op("write_dp_register", 0, R, 1))
  /\ UNCHANGED attempts

vars == <<dapvars, corevars, flashvars>>

\* a session attached over a transport that does not fail during the attach,
\* and then used for register accesses over a transport that may fail
Next ==
  \/ Attach
  \/ Reborrow
  \/ ReadApRegister
  \/ WriteApRegister
  \/ ReadApRegisterRepeated
  \/ WriteApRegisterRepeated
  \/ ReadDpRegister
  \/ WriteDpRegister
  \/ Return

Spec == Init /\ [][Next]_vars

\* attaching (and attaching again after a failure) over a transport that may fail
NextAttach ==
  \/ New
  \/ Reborrow
  \/ Return

SpecAttach == Init /\ [][NextAttach]_vars

\* ======================================================= the core layer (m4.rs)
\* the polls of wait_for_core_halted and of wait_for_core_register_transfer
PollLimit == 100
\* the most the number of the failing memory access can be
MaxCoreFail == 3

\* CoreStatus
Running == [status |-> "Running", reason |-> "None"]
Sleeping == [status |-> "Sleeping", reason |-> "None"]
Halted(reason) == [status |-> "Halted", reason |-> reason]
is_halted(st) == st.status = "Halted"

\* Dhcsr
s_sleep(v) == 18 \in v
s_halt(v) == 17 \in v
s_regrdy(v) == 16 \in v
c_debugen(v) == 0 \in v
\* Dhcsr::enable_write: the upper half is replaced by the key 0xA05F
enable_write(v) == {b \in v : b < 16} \cup BitsOf(41055, 16)
\* the DHCSR values halt, run and step write
DhcsrHalt == enable_write({1, 0})
DhcsrRun == enable_write({0})
DhcsrStep == enable_write({2, 0, 3})
DhcsrDebugen == enable_write({0})

\* Dcrsr with regwnr and regsel set
Dcrsr(regwnr, regsel) == (IF regwnr THEN {16} ELSE {}) \cup BitsOf(regsel % 128, 0)
\* register::PC.address, register::XPSR.address
PC == 15
XPSR == 16
XPSR_THUMB == {24}

\* Aircr with vectkey() and sysresetreq set
AircrSysResetReq == BitsOf(1530, 16) \cup {2}

\* Demcr
vc_corereset(v) == 0 \in v

\* Dfsr::clear_all and Dfsr::halt_reason
DfsrClearAll == {4, 3, 2, 1, 0}
halt_reason(v) ==
  CASE v = {4} -> "External" [] v = {3} -> "Vector" [] v = {2} -> "DWTTrap"
    [] v = {1} -> "BKPT" [] v = {0} -> "Step" [] OTHER -> "Unknown"

\* The context of a call of the core layer: the CortexState (k), the target's
\* registers (u), the memory accesses so far, the Result so far (err), the last
\* value read (ret), the value the call returns (res), the DHCSR reads so far (nd),
\* whether the polling loop under way has been left by a return (done),
\* and what the environment chose for this call:
\*   n1, d1..d4  what DHCSR reads as: d1 in the first n1 reads, then d2, then d3,
\*               and d4 from then on (the status bits; C_DEBUGEN is the target's)
\*   dfsr        what DFSR reads as
\*   dcrdr       what DCRDR reads as
\*   fail        the number of the memory access that fails (0: none)
CoreCtx(inp) ==
  [k |-> core, u |-> mcu, log |-> <<>>, err |-> Ok, ret |-> {},
   res |-> NoStatus, nd |-> 0, done |-> FALSE, inp |-> inp]

DhcsrAt(inp, i) ==
  IF i <= inp.n1 THEN inp.d1
  ELSE IF i = inp.n1 + 1 THEN inp.d2
  ELSE IF i = inp.n1 + 2 THEN inp.d3
  ELSE inp.d4

\* what the target answers to a read of the register reg
McuRead(c, reg) ==
  CASE reg = "DHCSR" ->
         DhcsrAt(c.inp, c.nd + 1) \cup (IF c.u.c_debugen THEN {0} ELSE {})
    [] reg = "DFSR" -> c.inp.dfsr
    [] reg = "DEMCR" -> c.u.demcr
    [] reg = "DCRDR" -> c.inp.dcrdr
    [] reg = "FP_CTRL" -> c.inp.fpctrl
    [] OTHER -> {}

\* what a write of val to the register reg leaves in the target
McuWrite(u, reg, val) ==
  CASE reg = "DHCSR" ->
         IF Field(val, 31, 16) = 41055 THEN [u EXCEPT !.c_debugen = 0 \in val] ELSE u
    [] reg = "DEMCR" -> [u EXCEPT !.demcr = val]
    [] OTHER -> u

\* Memory::read_word_32 and Memory::write_word_32: one access of a memory-mapped
\* register; the access number inp.fail fails and leaves the target as it was
MemAccess(c, reg, w, val) ==
  LET failing == (Len(c.log) + 1 = c.inp.fail)
      rv == IF w THEN val ELSE McuRead(c, reg)
  IN  [c EXCEPT !.u = IF w /\ ~failing THEN McuWrite(c.u, reg, val) ELSE c.u,
                !.log = Append(@, [reg |-> reg, w |-> w, val |-> rv, ok |-> ~failing]),
                !.err = IF failing THEN "Memory" ELSE Ok,
                !.ret = IF failing THEN {} ELSE rv,
                !.nd = IF reg = "DHCSR" /\ ~w THEN @ + 1 ELSE @]

read_word_32(c, reg) == MemAccess(c, reg, FALSE, {})
write_word_32(c, reg, val) == MemAccess(c, reg, TRUE, val)

\* the end of M4::new: DFSR is cleared, the state found is cached
NewFinish(c, core_state) ==
  Then(write_word_32(c, "DFSR", DfsrClearAll), LAMBDA c1 :
  [c1 EXCEPT !.k.current_state = core_state, !.k.initialized = TRUE])

\* M4::new
M4_new(c) ==
  IF c.k.initialized THEN c
  ELSE Then(read_word_32(c, "DHCSR"), LAMBDA c1 :
       IF s_sleep(c1.ret) THEN NewFinish(c1, Sleeping)
       ELSE IF s_halt(c1.ret)
       THEN Then(read_word_32(c1, "DFSR"), LAMBDA c2 :
                 NewFinish(c2, Halted(halt_reason(c2.ret))))
       ELSE NewFinish(c1, Running))

\* the end of status that caches whatever reason DFSR gave
StatusHalted_always_replace(c, reason) ==
  [c EXCEPT !.k.current_state = Halted(reason), !.res = Halted(reason)]

\* the end of status when DHCSR shows the core halted and DFSR gave reason
StatusHalted(c, reason) ==
  IF is_halted(c.k.current_state) /\ reason = "Unknown"
  THEN [c EXCEPT !.res = c.k.current_state]
  ELSE [c EXCEPT !.k.current_state = Halted(reason), !.res = Halted(reason)]

\* status that looks at S_HALT before S_SLEEP
status_halt_first(c) ==
  Then(read_word_32(c, "DHCSR"), LAMBDA c1 :
  IF s_halt(c1.ret)
  THEN Then(read_word_32(c1, "DFSR"), LAMBDA c2 :
       Then(write_word_32(c2, "DFSR", DfsrClearAll), LAMBDA c3 :
       StatusHalted(c3, halt_reason(c2.ret))))
  ELSE IF s_sleep(c1.ret)
  THEN [c1 EXCEPT !.k.current_state = Sleeping, !.res = Sleeping]
  ELSE [c1 EXCEPT !.k.current_state = Running, !.res = Running])

\* status that leaves the sticky bits of DFSR alone
status_no_clear(c) ==
  Then(read_word_32(c, "DHCSR"), LAMBDA c1 :
  IF s_sleep(c1.ret)
  THEN [c1 EXCEPT !.k.current_state = Sleeping, !.res = Sleeping]
  ELSE IF s_halt(c1.ret)
  THEN Then(read_word_32(c1, "DFSR"), LAMBDA c2 :
       StatusHalted(c2, halt_reason(c2.ret)))
  ELSE [c1 EXCEPT !.k.current_state = Running, !.res = Running])

\* M4::status
status(c) ==
  Then(read_word_32(c, "DHCSR"), LAMBDA c1 :
  IF s_sleep(c1.ret)
  THEN [c1 EXCEPT !.k.current_state = Sleeping, !.res = Sleeping]
  ELSE IF s_halt(c1.ret)
  THEN Then(read_word_32(c1, "DFSR"), LAMBDA c2 :
       Then(write_word_32(c2, "DFSR", DfsrClearAll), LAMBDA c3 :
       StatusHalted(c3, halt_reason(c2.ret))))
  ELSE [c1 EXCEPT !.k.current_state = Running, !.res = Running])

\* The polling loops run PollLimit iterations and are left by the first iteration
\* that returns (done) or fails. n iterations are run as the first n \div 2 of them
\* followed, if the loop has not been left, by the rest.

\* a polling loop that falls through as a success when no iteration has returned
LoopEnd_fall_through(c) == c

\* the end of a polling loop: Timeout when no iteration has returned
LoopEnd(c) ==
  IF c.err # Ok \/ c.done THEN c ELSE [c EXCEPT !.err = "Timeout"]

\* one iteration of the loop of wait_for_core_halted
HaltedIteration(c) ==
  Then(read_word_32(c, "DHCSR"), LAMBDA c1 :
  IF s_halt(c1.ret) THEN [status(c1) EXCEPT !.done = TRUE] ELSE c1)

RECURSIVE HaltedIterations(_, _)
HaltedIterationsNext(c1, m) ==
  IF c1.done \/ c1.err # Ok THEN c1 ELSE HaltedIterations(c1, m)
HaltedIterations(c, n) ==
  IF n = 0 THEN c
  ELSE IF n = 1 THEN HaltedIteration(c)
  ELSE HaltedIterationsNext(HaltedIterations(c, n \div 2), n - n \div 2)

\* M4::wait_for_core_halted
wait_for_core_halted(c) ==
  LoopEnd(HaltedIterations([c EXCEPT !.done = FALSE], PollLimit))

\* one iteration of the loop of wait_for_core_register_transfer
RegisterTransferIteration(c) ==
  Then(read_word_32(c, "DHCSR"), LAMBDA c1 :
  IF s_regrdy(c1.ret) THEN [c1 EXCEPT !.done = TRUE] ELSE c1)

RECURSIVE RegisterTransferIterations(_, _)
RegisterTransferIterationsNext(c1, m) ==
  IF c1.done \/ c1.err # Ok THEN c1 ELSE RegisterTransferIterations(c1, m)
RegisterTransferIterations(c, n) ==
  IF n = 0 THEN c
  ELSE IF n = 1 THEN RegisterTransferIteration(c)
  ELSE RegisterTransferIterationsNext(RegisterTransferIterations(c, n \div 2),
                                      n - n \div 2)

\* M4::wait_for_core_register_transfer
wait_for_core_register_transfer(c) ==
  LoopEnd(RegisterTransferIterations([c EXCEPT !.done = FALSE], PollLimit))

\* read_core_reg that reads DCRDR without waiting for the transfer
read_core_reg_no_wait(c, addr) ==
  Then(write_word_32(c, "DCRSR", Dcrsr(FALSE, addr)), LAMBDA c1 :
  read_word_32(c1, "DCRDR"))

\* M4::read_core_reg
read_core_reg(c, addr) ==
  Then(write_word_32(c, "DCRSR", Dcrsr(FALSE, addr)), LAMBDA c1 :
  Then(wait_for_core_register_transfer(c1), LAMBDA c2 :
  read_word_32(c2, "DCRDR")))

\* write_core_reg that starts the transfer before it has written the value
write_core_reg_select_first(c, addr, value) ==
  Then(write_word_32(c, "DCRSR", Dcrsr(TRUE, addr)), LAMBDA c1 :
  Then(write_word_32(c1, "DCRDR", value), LAMBDA c2 :
  wait_for_core_register_transfer(c2)))

\* M4::write_core_reg
write_core_reg(c, addr, value) ==
  Then(write_word_32(c, "DCRDR", value), LAMBDA c1 :
  Then(write_word_32(c1, "DCRSR", Dcrsr(TRUE, addr)), LAMBDA c2 :
  wait_for_core_register_transfer(c2)))

\* M4::halt
halt(c) ==
  Then(write_word_32(c, "DHCSR", DhcsrHalt), LAMBDA c1 :
  Then(wait_for_core_halted(c1), LAMBDA c2 :
  read_core_reg(c2, PC)))

\* run that leaves the cached state as it was
run_unchanged(c) == write_word_32(c, "DHCSR", DhcsrRun)

\* M4::run
run(c) ==
  Then(write_word_32(c, "DHCSR", DhcsrRun), LAMBDA c1 :
  [c1 EXCEPT !.k.current_state = Running])

\* M4::step
step(c) ==
  Then(write_word_32(c, "DHCSR", DhcsrStep), LAMBDA c1 :
  Then(wait_for_core_halted(c1), LAMBDA c2 :
  read_core_reg(c2, PC)))

\* M4::reset
reset(c) == write_word_32(c, "AIRCR", AircrSysResetReq)

\* reset_and_halt from the reset on, without the write that restores DEMCR
ResetAndHaltFrom_no_restore(c, demcr_val) ==
  Then(reset(c), LAMBDA c1 :
  Then(wait_for_core_halted(c1), LAMBDA c2 :
  Then(read_core_reg(c2, XPSR), LAMBDA c3 :
  Then(IF XPSR_THUMB \subseteq c3.ret THEN c3
       ELSE write_core_reg(c3, XPSR, c3.ret \cup XPSR_THUMB), LAMBDA c4 :
  read_core_reg(c4, PC)))))

\* reset_and_halt from the reset on, writing XPSR as the Thumb bit alone
ResetAndHaltFrom_thumb_only(c, demcr_val) ==
  Then(reset(c), LAMBDA c1 :
  Then(wait_for_core_halted(c1), LAMBDA c2 :
  Then(read_core_reg(c2, XPSR), LAMBDA c3 :
  Then(IF XPSR_THUMB \subseteq c3.ret THEN c3
       ELSE write_core_reg(c3, XPSR, XPSR_THUMB), LAMBDA c4 :
  Then(write_word_32(c4, "DEMCR", demcr_val), LAMBDA c5 :
  read_core_reg(c5, PC))))))

\* reset_and_halt from the reset on; demcr_val is what DEMCR read as
ResetAndHaltFrom(c, demcr_val) ==
  Then(reset(c), LAMBDA c1 :
  Then(wait_for_core_halted(c1), LAMBDA c2 :
  Then(read_core_reg(c2, XPSR), LAMBDA c3 :
  Then(IF XPSR_THUMB \subseteq c3.ret THEN c3
       ELSE write_core_reg(c3, XPSR, c3.ret \cup XPSR_THUMB), LAMBDA c4 :
  Then(write_word_32(c4, "DEMCR", demcr_val), LAMBDA c5 :
  read_core_reg(c5, PC))))))

\* reset_and_halt that resets without setting VC_CORERESET
reset_and_halt_unarmed(c) ==
  Then(read_word_32(c, "DHCSR"), LAMBDA c1 :
  Then(IF c_debugen(c1.ret) THEN c1
       ELSE write_word_32(c1, "DHCSR", DhcsrDebugen), LAMBDA c2 :
  Then(read_word_32(c2, "DEMCR"), LAMBDA c3 :
  ResetAndHaltFrom(c3, c3.ret))))

\* M4::reset_and_halt
reset_and_halt(c) ==
  Then(read_word_32(c, "DHCSR"), LAMBDA c1 :
  Then(IF c_debugen(c1.ret) THEN c1
       ELSE write_word_32(c1, "DHCSR", DhcsrDebugen), LAMBDA c2 :
  Then(read_word_32(c2, "DEMCR"), LAMBDA c3 :
  Then(IF vc_corereset(c3.ret) THEN c3
       ELSE write_word_32(c3, "DEMCR", c3.ret \cup {0}), LAMBDA c4 :
  ResetAndHaltFrom(c4, c3.ret)))))

\* ------------------------------------------------ FPB, the breakpoint unit
\* v & (the bits hi..lo), v >> n and v << n on 32-bit words
AndMask(v, hi, lo) == {b \in v : b >= lo /\ b <= hi}
ShiftRight(v, n) == {b - n : b \in {x \in v : x >= n}}
ShiftLeft(v, n) == {b + n : b \in {x \in v : x + n <= 31}}

\* the getter and the setter the bitfield! macro generates for the field [hi:lo]
GetBits(v, hi, lo) == ShiftRight(AndMask(v, hi, lo), lo)
SetBits(v, hi, lo, val) ==
  {b \in v : b < lo \/ b > hi} \cup AndMask(ShiftLeft(val, lo), hi, lo)

\* FpCtrl::rev as a number, FpCtrl::num_code
FpCtrl_rev(v) == Field(v, 31, 28)
FpCtrl_num_code(v) == ShiftLeft(GetBits(v, 14, 12), 4) \cup GetBits(v, 7, 4)

\* FpCtrl with the key and the enable bit as given
FpCtrlEnable(on) == SetBits(SetBits({}, 1, 1, {0}), 0, 0, IF on THEN {0} ELSE {})

\* the comparator register of unit bp_unit_index, at FpRev1CompX::ADDRESS + 4 * index
FpComp(bp_unit_index) == "FP_COMP" \o ToString(bp_unit_index)

\* a comparator configuration whose COMP field is given the address unshifted
FpRev1CompX_breakpoint_configuration_unshifted(address) ==
  SetBits(SetBits(SetBits({}, 31, 30,
                          IF AndMask(address, 1, 0) = {} THEN {0} ELSE {1}),
                  28, 2, AndMask(address, 28, 2)),
          0, 0, {0})

\* FpRev1CompX::breakpoint_configuration
FpRev1CompX_breakpoint_configuration(address) ==
  SetBits(SetBits(SetBits({}, 31, 30,
                          IF AndMask(address, 1, 0) = {} THEN {0} ELSE {1}),
                  28, 2, ShiftRight(AndMask(address, 28, 2), 2)),
          0, 0, {0})

\* FpRev2CompX::breakpoint_configuration
FpRev2CompX_breakpoint_configuration(address) ==
  SetBits(SetBits({}, 31, 1, ShiftRight(address, 1)), 0, 0, {0})

\* M4::get_available_breakpoint_units
get_available_breakpoint_units(c) ==
  Then(read_word_32(c, "FP_CTRL"), LAMBDA c1 :
  IF FpCtrl_rev(c1.ret) = 0 \/ FpCtrl_rev(c1.ret) = 1
  THEN [c1 EXCEPT !.ret = FpCtrl_num_code(c1.ret)]
  ELSE [c1 EXCEPT !.err = "Unknown", !.ret = {}])

\* M4::enable_breakpoints
enable_breakpoints(c, on) ==
  Then(write_word_32(c, "FP_CTRL", FpCtrlEnable(on)), LAMBDA c1 :
  [c1 EXCEPT !.k.hw_breakpoints_enabled = TRUE])

\* set_breakpoint that programs the comparator whatever the revision is
set_breakpoint_any_revision(c, bp_unit_index, addr) ==
  Then(read_word_32(c, "FP_CTRL"), LAMBDA c1 :
  write_word_32(c1, FpComp(bp_unit_index),
                IF FpCtrl_rev(c1.ret) = 0
                THEN FpRev1CompX_breakpoint_configuration(addr)
                ELSE FpRev2CompX_breakpoint_configuration(addr)))

\* M4::set_breakpoint
set_breakpoint(c, bp_unit_index, addr) ==
  Then(read_word_32(c, "FP_CTRL"), LAMBDA c1 :
  IF FpCtrl_rev(c1.ret) = 0
  THEN write_word_32(c1, FpComp(bp_unit_index),
                     FpRev1CompX_breakpoint_configuration(addr))
  ELSE IF FpCtrl_rev(c1.ret) = 1
  THEN write_word_32(c1, FpComp(bp_unit_index),
                     FpRev2CompX_breakpoint_configuration(addr))
  ELSE [c1 EXCEPT !.err = "Unknown", !.ret = {}])

\* M4::clear_breakpoint
clear_breakpoint(c, bp_unit_index) ==
  write_word_32(c, FpComp(bp_unit_index), SetBits({}, 0, 0, {}))

\* ----------------------------------------------- operations of the core layer
\* the status bits DHCSR can read with, the DFSR and DCRDR values of the model
StatusBits == SUBSET {18, 17}
DfsrValues == {{}, {1}, {4}}
DcrdrValues == {{30}, {24, 30}}
\* after how many DHCSR reads the awaited bit shows
PollCounts == {0, 1, PollLimit - 1, PollLimit}

CoreInputs(n1s, d1s, d2s, d3s, d4s, dfsrs, dcrdrs, fails) ==
  [n1 : n1s, d1 : d1s, d2 : d2s, d3 : d3s, d4 : d4s,
   dfsr : dfsrs, dcrdr : dcrdrs, fail : fails]

\* the targets of the model differ in what the debugger finds in DHCSR.C_DEBUGEN
\* and in DEMCR
InitCore ==
  /\ has_dap = TRUE
  /\ chip \in {ch \in Chips : ch.dpidr_version = 1 /\ ch.naps = 1 /\ ch.only32}
  /\ state = NewState
  /\ target = ResetTarget
  /\ log = <<>>
  /\ lastop = NoResult
  /\ pre = NoPre
  /\ marks = NoMarks
  /\ attempts = 0
  /\ core = NewCortexState
  /\ mcu \in [c_debugen : BOOLEAN, demcr : {{24}, {0, 24}}]
  /\ dl = NoDownload
  /\ mem = NoMem

\* the call op of the core layer ends in context c
CoreFinish(c, op) ==
  /\ core' = c.k
  /\ mcu' = c.u
  /\ log' = c.log
  /\ lastop' = [op |-> op, err |-> c.err, ret |-> c.ret, vals |-> <<>>, res |-> c.res]
  /\ pre' = [s |-> state, t |-> target, m |-> marks, k |-> core, u |-> mcu]
  /\ marks' = [marks EXCEPT !.ran = (op.name = "run" /\ c.err = Ok)]
  /\ UNCHANGED <<has_dap, chip, state, target, attempts, dl, mem>>

\* the calls other than M4::new are made on an M4, which only a successful
\* M4::new returns
HasCore == Idle /\ core.initialized

StatusInputs ==
  CoreInputs({0}, {{}}, StatusBits, {{}}, {{}}, DfsrValues, {{}}, 0..MaxCoreFail)

CoreNew ==
  /\ Idle
  /\ \E inp \in StatusInputs : CoreFinish(M4_new(CoreCtx(inp)), Op("M4::new", 0, "", 0))

Status ==
  /\ HasCore
  /\ \E inp \in StatusInputs : CoreFinish(status(CoreCtx(inp)), Op("status", 0, "", 0))

\* the polls read DHCSR without S_HALT n1 times, then with it; the read of
\* status() that follows and the polls for S_REGRDY read what the target then shows
HaltInputs ==
  {i \in CoreInputs(PollCounts, {{}, {18}}, {{17}, {17, 18}}, StatusBits,
                    {{17}, {16, 17}}, {{}, {1}}, {{}}, 0..MaxCoreFail) :
     /\ i.n1 = 0 => i.d1 = {}
     /\ i.n1 = PollLimit => (i.d2 = {17} /\ i.d3 = {17} /\ i.d4 = {17})
     /\ i.fail # 0 => i.n1 <= 1}

Halt ==
  /\ HasCore
  /\ \E inp \in HaltInputs : CoreFinish(halt(CoreCtx(inp)), Op("halt", 0, "", 0))

Step ==
  /\ HasCore
  /\ \E inp \in HaltInputs : CoreFinish(step(CoreCtx(inp)), Op("step", 0, "", 0))

WriteInputs == CoreInputs({0}, {{}}, {{}}, {{}}, {{}}, {{}}, {{}}, 0..1)

Run ==
  /\ HasCore
  /\ \E inp \in WriteInputs : CoreFinish(run(CoreCtx(inp)), Op("run", 0, "", 0))

Reset ==
  /\ HasCore
  /\ \E inp \in WriteInputs : CoreFinish(reset(CoreCtx(inp)), Op("reset", 0, "", 0))

\* the first read of reset_and_halt is the one that looks at C_DEBUGEN: the polls
\* start with the second read
ResetAndHaltStatus ==
  {i \in CoreInputs({0, 1, 2, PollLimit, PollLimit + 1}, {{}, {17}},
                    {{17}, {17, 18}}, StatusBits, {{17}, {16, 17}}, {{}, {1}},
                    DcrdrValues, 0..MaxCoreFail) :
     /\ i.n1 = 0 => i.d1 = {}
     /\ i.n1 > 2 => (i.d1 = {} /\ i.d2 = {17} /\ i.d3 = {17})
     /\ i.n1 = PollLimit + 1 => i.d4 = {17}
     /\ i.fail # 0 => i.n1 <= 1}

\* SYSRESETREQ is asynchronous: the target takes the reset after rst reads of
\* DHCSR have been made (the first of them before the request), and until then
\* DHCSR reads as it did at the start of the call
ResetLatencies == {1, 2}
ResetAndHaltInputs ==
  {[n1 |-> i.n1, d1 |-> i.d1, d2 |-> i.d2, d3 |-> i.d3, d4 |-> i.d4,
    dfsr |-> i.dfsr, dcrdr |-> i.dcrdr, fail |-> i.fail, rst |-> r] :
     <<i, r>> \in {x \in ResetAndHaltStatus \X ResetLatencies :
                    \A j \in 1..x[2] : DhcsrAt(x[1], j) = DhcsrAt(x[1], 1)}}

\* the call is recorded with the number of DHCSR reads that came before the
\* target took the reset
ResetAndHalt ==
  /\ HasCore
  /\ \E inp \in ResetAndHaltInputs :
       CoreFinish(reset_and_halt(CoreCtx(inp)),
                  Op("reset_and_halt", 0, "", inp.rst))

\* S_REGRDY shows after n1 polls
RegisterInputs ==
  CoreInputs(PollCounts, {{17}}, {{16, 17}}, {{16, 17}}, {{16, 17}}, {{}},
             DcrdrValues, 0..MaxCoreFail)

\* the values written to a core register
RegisterValues == {XPSR_THUMB, {30, 0}}

\* a call that names the core register addr and the value for it
CoreRegOp(name, addr, value) ==
  [name |-> name, port |-> addr, reg |-> "", n |-> 0, value |-> value]

ReadCoreReg ==
  /\ HasCore
  /\ \E addr \in {PC, XPSR}, inp \in RegisterInputs :
       CoreFinish(read_core_reg(CoreCtx(inp), addr), Op("read_core_reg", addr, "", 0))

WriteCoreReg ==
  /\ HasCore
  /\ \E addr \in {PC, XPSR}, inp \in RegisterInputs :
       /\ inp.dcrdr = {30}
       /\ \E value \in RegisterValues :
            CoreFinish(write_core_reg(CoreCtx(inp), addr, value),
                       CoreRegOp("write_core_reg", addr, value))

NextCore ==
  \/ CoreNew
  \/ Status
  \/ Halt
  \/ Run
  \/ Step
  \/ Reset
  \/ ResetAndHalt
  \/ ReadCoreReg
  \/ WriteCoreReg
  \/ Return

SpecCore == InitCore /\ [][NextCore]_vars

\* ------------------------------------------------- operations on the FPB
\* the comparators the calls of the model name
MaxBpUnits == 2
BpUnits == 0..(MaxBpUnits - 1)

\* FP_CTRL as the target reports it: the revision, NUM_CODE[6:4], NUM_CODE[3:0],
\* and NUM_LIT with ENABLE
FpCtrlValues ==
  {r \cup h \cup l \cup o :
     r \in {{}, {28}, {29}, {28, 29}, {31}},
     h \in {{}, {12}, {13, 14}},
     l \in {{}, {4}, {5, 7}},
     o \in {{}, {0, 9}}}

\* breakpoint addresses: in and above the low 512 MiB, word-aligned or not;
\* {27, 11, 8, 7, 5, 2} is 0x0800_09A4
BpAddresses ==
  {h \cup m \cup l :
     h \in SUBSET {29, 31},
     m \in {{}, {2}, {28}, {27, 11, 8, 7, 5, 2}},
     l \in {{}, {1}, {0, 1}}}

FpbInputs == [fpctrl : FpCtrlValues, fail : 0..2]

FpbOp(name, n, addr) ==
  [name |-> name, port |-> 0, reg |-> "", n |-> n, addr |-> addr]

GetAvailableBreakpointUnits ==
  /\ HasCore
  /\ \E inp \in FpbInputs :
       CoreFinish(get_available_breakpoint_units(CoreCtx(inp)),
                  FpbOp("get_available_breakpoint_units", 0, {}))

EnableBreakpoints ==
  /\ HasCore
  /\ \E on \in BOOLEAN, inp \in FpbInputs :
       /\ inp.fpctrl = {}
       /\ CoreFinish(enable_breakpoints(CoreCtx(inp), on),
                     FpbOp("enable_breakpoints", IF on THEN 1 ELSE 0, {}))

\* set_breakpoint looks at the revision alone: its targets have NUM_CODE = 10
SetBreakpoint ==
  /\ HasCore
  /\ \E unit \in BpUnits, addr \in BpAddresses, inp \in FpbInputs :
       /\ AndMask(inp.fpctrl, 14, 4) = {5, 7}
       /\ CoreFinish(set_breakpoint(CoreCtx(inp), unit, addr),
                  FpbOp("set_breakpoint", unit, addr))

ClearBreakpoint ==
  /\ HasCore
  /\ \E unit \in BpUnits, inp \in FpbInputs :
       /\ inp.fpctrl = {}
       /\ CoreFinish(clear_breakpoint(CoreCtx(inp), unit),
                     FpbOp("clear_breakpoint", unit, {}))

NextFpb ==
  \/ CoreNew
  \/ GetAvailableBreakpointUnits
  \/ EnableBreakpoints
  \/ SetBreakpoint
  \/ ClearBreakpoint
  \/ Return

SpecFpb == InitCore /\ [][NextFpb]_vars

\* ==================================================== flash_writer.rs
\* the records download_hex takes from one file
MaxRecords == 2
\* the READY reads that find the NVMC busy, per erase, in the downloads of SpecFlash
MaxBusy == 1
\* the probe accesses of one step of download_hex that can fail: the first to this
MaxFlashFail == 2

NVMC_READY == 1073865728
NVMC_CONFIG == 1073865988
NVMC_ERASEPAGE == 1073865992
WEN == 1
EEN == 2

\* ihex::record::Record, and the Err(ReaderError) the reader can yield instead
Record(type, offset, value, address) ==
  [type |-> type, offset |-> offset, value |-> value, address |-> address]
Data(offset, value) == Record("Data", offset, value, 0)
EndOfFile == Record("EndOfFile", 0, <<>>, 0)
ExtendedSegmentAddress(address) == Record("ExtendedSegmentAddress", 0, <<>>, address)
StartSegmentAddress == Record("StartSegmentAddress", 0, <<>>, 0)
ExtendedLinearAddress(address) == Record("ExtendedLinearAddress", 0, <<>>, address)
StartLinearAddress == Record("StartLinearAddress", 0, <<>>, 0)
ReaderError == Record("ReaderError", 0, <<>>, 0)

\* what one step of download_hex works on: the locals of the call, the probe
\* accesses made so far, and what the target and the probe answer in this step
FlashCtx(inp) ==
  [d |-> dl, log |-> log, err |-> Ok, ret |-> 0, na |-> 0, inp |-> inp]

\* probe.read, probe.write and probe.write_block (super::MI): one access each; the
\* access number inp.fail of the step fails
ProbeAccess(c, addr, w, block, val) ==
  LET failing == (c.na + 1 = c.inp.fail)
      rv == IF w THEN val ELSE IF addr = NVMC_READY THEN c.inp.ready ELSE 0
  IN  [c EXCEPT !.log = Append(@, [addr |-> addr, w |-> w, block |-> block,
                                   val |-> rv, ok |-> ~failing,
                                   rec |-> Len(c.d.recs)]),
                !.na = @ + 1,
                !.err = IF failing THEN "AccessPort" ELSE Ok,
                !.ret = IF failing \/ w THEN 0 ELSE rv]

probe_read(c, addr) == ProbeAccess(c, addr, FALSE, FALSE, 0)
probe_write(c, addr, val) == ProbeAccess(c, addr, TRUE, FALSE, val)
probe_write_block(c, addr, vals) == ProbeAccess(c, addr, TRUE, TRUE, vals)

\* data.chunks(4)
Chunks(data) ==
  [i \in 1..((Len(data) + 3) \div 4) |->
     SubSeq(data, 4 * i - 3, IF 4 * i <= Len(data) THEN 4 * i ELSE Len(data))]

\* chunk.pread::<u32>(0): the four bytes as a little-endian word; TooBig when the
\* chunk is shorter than the word
PreadFails(chunk) == Len(chunk) < 4
PreadU32(chunk) ==
  chunk[1] + 256 * chunk[2] + 65536 * chunk[3] + 16777216 * chunk[4]

\* write_bytes that pads the last chunk with 0xFF
write_bytes_padded(c, address, data) ==
  Then(probe_write(c, NVMC_CONFIG, WEN), LAMBDA c1 :
  probe_write_block(c1, address,
    [i \in DOMAIN Chunks(data) |->
       PreadU32(Chunks(data)[i] \o [j \in 1..(4 - Len(Chunks(data)[i])) |-> 255])]))

\* write_bytes; the expect on a failed pread panics
write_bytes(c, address, data) ==
  Then(probe_write(c, NVMC_CONFIG, WEN), LAMBDA c1 :
  IF \E i \in DOMAIN Chunks(data) : PreadFails(Chunks(data)[i])
  THEN [c1 EXCEPT !.err = "Panic"]
  ELSE probe_write_block(c1, address,
         [i \in DOMAIN Chunks(data) |-> PreadU32(Chunks(data)[i])]))

\* the Data arm of download_hex once erase_page is done with
DataWrite(c) ==
  Then(write_bytes(c, c.d.addr, c.d.recs[Len(c.d.recs)].value), LAMBDA c1 :
  [c1 EXCEPT !.d.total = @ + Len(c.d.recs[Len(c.d.recs)].value),
             !.d.pc = "records"])

\* erase_page from a read of NVMC_READY on: the while loop is left when the
\* flag read is not 0
ErasePageReady(c) ==
  Then(probe_read(c, NVMC_READY), LAMBDA c1 :
  IF c1.ret = 0
  THEN [c1 EXCEPT !.d.pc = "erase_poll", !.d.polls = @ + 1]
  ELSE DataWrite(c1))

\* erase_page that reads READY before it has started the erase
erase_page_ready_first(c, address) ==
  Then(probe_write(c, NVMC_CONFIG, EEN), LAMBDA c1 :
  Then(probe_read(c1, NVMC_READY), LAMBDA c2 :
  Then(probe_write(c2, NVMC_ERASEPAGE, address), LAMBDA c3 :
  DataWrite(c3))))

\* erase_page up to its first read of NVMC_READY
erase_page(c, address) ==
  Then(probe_write(c, NVMC_CONFIG, EEN), LAMBDA c1 :
  Then(probe_write(c1, NVMC_ERASEPAGE, address), LAMBDA c2 :
  ErasePageReady([c2 EXCEPT !.d.polls = 0])))

\* address * 16 in u16: a panic with overflow checks, the low 16 bits without
SegmentAddress(c, address) ==
  IF address * 16 >= 65536 /\ c.d.checked
  THEN [c EXCEPT !.err = "Panic"]
  ELSE [c EXCEPT !.d.seg = (address * 16) % 65536]

\* the Data arm that erases whatever the address is
DataArm_erase_always(c, record) ==
  erase_page([c EXCEPT !.d.addr = c.d.linear + record.offset],
             c.d.linear + record.offset)

\* the Data arm of the match; extended_linear_address | offset is their sum, the
\* low 16 bits of extended_linear_address being 0
DataArm(c, record) ==
  IF (c.d.linear + record.offset) % c.d.page_size = 0
  THEN erase_page([c EXCEPT !.d.addr = c.d.linear + record.offset],
                  c.d.linear + record.offset)
  ELSE DataWrite([c EXCEPT !.d.addr = c.d.linear + record.offset])

\* one iteration of the for loop of download_hex
RecordArm(c, record) ==
  CASE record.type = "ReaderError" -> [c EXCEPT !.err = "Reader"]
    [] record.type = "Data" -> DataArm(c, record)
    [] record.type = "EndOfFile" -> [c EXCEPT !.d.pc = "returned"]
    [] record.type = "ExtendedSegmentAddress" -> SegmentAddress(c, record.address)
    [] record.type = "ExtendedLinearAddress" ->
         [c EXCEPT !.d.linear = record.address * 65536]
    [] OTHER -> c

download_record(c, record) ==
  RecordArm([c EXCEPT !.d.recs = Append(@, record)], record)

\* ------------------------------------------- operations of the flash writer
PageSizes == {16, 1024}
Offsets == {0, 16}
DataValues == {<<1, 2, 3, 4>>, <<1, 2, 3, 4, 5, 6, 7, 8>>, <<1, 2, 3, 4, 5>>}
HexRecords ==
  {Data(o, v) : o \in Offsets, v \in DataValues}
    \cup {ExtendedSegmentAddress(a) : a \in {1, 4096}}
    \cup {ExtendedLinearAddress(1), EndOfFile, StartSegmentAddress,
          StartLinearAddress, ReaderError}
\* the records of the downloads that show the erase alone
EraseRecords == {Data(o, <<1, 2, 3, 4>>) : o \in Offsets}

FlashInputs == [fail : 0..MaxFlashFail, ready : {0, 1}]

Downloading == dl.pc \in {"records", "erase_poll"}

\* download_hex has not been called; its probe is attached to a chip with one
\* memory AP
InitFlash ==
  /\ has_dap = TRUE
  /\ chip \in {ch \in Chips : ch.dpidr_version = 1 /\ ch.naps = 1 /\ ch.only32}
  /\ state = NewState
  /\ target = ResetTarget
  /\ log = <<>>
  /\ lastop = NoResult
  /\ pre = NoPre
  /\ marks = NoMarks
  /\ attempts = 0
  /\ core = NewCortexState
  /\ mcu = ResetMcu
  /\ dl = NoDownload
  /\ mem = NoMem

\* a step of download_hex ends in context c; the call ends with a panic, with
\* an error or with the return at EndOfFile
FlashFinish(c) ==
  /\ log' = c.log
  /\ dl' = IF c.err = "Panic" THEN [c.d EXCEPT !.pc = "panicked"]
           ELSE IF c.err # Ok THEN [c.d EXCEPT !.pc = "returned"]
           ELSE c.d
  /\ lastop' = IF c.err # Ok \/ c.d.pc = "returned"
               THEN [op |-> Op("download_hex", 0, "", 0), err |-> c.err,
                     ret |-> {}, vals |-> <<>>, res |-> NoStatus]
               ELSE lastop
  /\ UNCHANGED <<has_dap, chip, state, target, pre, marks, attempts, core, mcu, mem>>

\* download_hex is called; the build checks integer overflow or does not
Download ==
  /\ Idle /\ ~Downloading
  /\ \E page_size \in PageSizes, checked \in BOOLEAN :
       dl' = [NoDownload EXCEPT !.pc = "records", !.page_size = page_size,
                                !.checked = checked]
  /\ log' = <<>>
  /\ UNCHANGED <<has_dap, chip, state, target, lastop, pre, marks, attempts,
                 core, mcu, mem>>

NextRecordFrom(records) ==
  /\ dl.pc = "records"
  /\ Len(dl.recs) < MaxRecords
  /\ \E record \in records, inp \in FlashInputs :
       FlashFinish(download_record(FlashCtx(inp), record))

\* the reader yields a record
NextRecord == NextRecordFrom(HexRecords)

\* the reader yields the first record of a file that starts with an erase
FirstRecord == dl.recs = <<>> /\ NextRecordFrom(EraseRecords)

\* the reader has no more records: the for loop ends
EndOfRecords ==
  /\ dl.pc = "records"
  /\ FlashFinish([FlashCtx([fail |-> 0, ready |-> 1]) EXCEPT !.d.pc = "returned"])

\* an iteration of the while loop of erase_page; the NVMC is busy for at most
\* busy reads
ErasePoll(busy) ==
  /\ dl.pc = "erase_poll"
  /\ \E inp \in FlashInputs :
       /\ (inp.ready = 0 /\ inp.fail # 1) => dl.polls < busy
       /\ FlashFinish(ErasePageReady(FlashCtx(inp)))

ErasePollBusy == ErasePoll(MaxBusy)
ErasePollAny == ErasePoll(PollLimit + 1)

\* the caller has the result of download_hex
FlashReturn ==
  /\ ~Idle
  /\ log' = <<>>
  /\ lastop' = NoResult
  /\ dl' = NoDownload
  /\ UNCHANGED <<has_dap, chip, state, target, pre, marks, attempts, core, mcu, mem>>

NextFlash ==
  \/ Download
  \/ NextRecord
  \/ ErasePollBusy
  \/ EndOfRecords
  \/ FlashReturn

SpecFlash == InitFlash /\ [][NextFlash]_vars

\* the downloads of a file of one record, with an NVMC that can stay busy
NextErase ==
  \/ Download
  \/ FirstRecord
  \/ ErasePollAny
  \/ EndOfRecords
  \/ FlashReturn

SpecErase == InitFlash /\ [][NextErase]_vars

\* ============================================================ MEM-AP engine
\* the autoincrement window the engine assumes: 10 address bits
TarWindow == 1024
\* the RAM of the target starts at 0x2000_0000; RamWords words of it are kept
RamBase == 536870912
RamWords == 1280
\* the transfer that fails is one of the first MaxMemFail of a call
MaxMemFail == 1

\* the CSW the engine wants for a 32-bit block transfer
CswDefault == [size |-> SizeU32, addrinc |-> "Single"]
\* no CSW is cached
NoCsw == [size |-> SizeU32, addrinc |-> "Unknown"]
\* the CSW of a memory AP after reset
CswReset == [size |-> SizeU32, addrinc |-> "Off"]

NoWrite == [addr |-> 0, data |-> <<>>, err |-> "none", halted |-> FALSE]
NoRead == [addr |-> 0, n |-> 0, data |-> <<>>, err |-> "none"]

WindowBase(a) == (a \div TarWindow) * TarWindow

\* the address of the j-th DRW transfer (from 0) after TAR was set to t: TAR
\* increments by 4 inside its window and wraps at the window's end
DrwAddress(m, t, j) ==
  IF m.csw.addrinc = "Single"
  THEN WindowBase(t) + ((t + 4 * j) % TarWindow)
  ELSE t

\* the last of k DRW transfers after TAR = t that accesses address a, or -1
LastTransferAt(m, t, k, a) ==
  IF m.csw.addrinc = "Single"
  THEN IF WindowBase(a) # WindowBase(t) \/ (a - t) % 4 # 0 THEN -1
       ELSE IF ((a - t) % TarWindow) \div 4 >= k THEN -1
       ELSE ((a - t) % TarWindow) \div 4
            + ((k - 1 - ((a - t) % TarWindow) \div 4) \div (TarWindow \div 4))
              * (TarWindow \div 4)
  ELSE IF a = t /\ k > 0 THEN k - 1 ELSE -1

RamWord(m, a) ==
  IF a >= RamBase /\ a < RamBase + 4 * RamWords /\ a % 4 = 0
  THEN m.ram[(a - RamBase) \div 4 + 1]
  ELSE 0

\* the target after k DRW writes of data with TAR = m.tar
DrwWriteBlock(m, data) ==
  [m EXCEPT
     !.ram = [x \in DOMAIN m.ram |->
                IF LastTransferAt(m, m.tar, Len(data), RamBase + 4 * (x - 1)) >= 0
                THEN data[LastTransferAt(m, m.tar, Len(data), RamBase + 4 * (x - 1)) + 1]
                ELSE m.ram[x]],
     !.tar = DrwAddress(m, m.tar, Len(data))]

\* the words that n DRW reads return with TAR = m.tar
DrwReadBlock(m, n) == [j \in 1..n |-> RamWord(m, DrwAddress(m, m.tar, j - 1))]

\* the call context of the DAP layer, with the memory AP and the words read
MemCtx(inp) ==
  [s |-> state, t |-> target, log |-> <<>>, err |-> Ok, ret |-> {},
   vals |-> <<>>, aps |-> <<>>, flag |-> FALSE, info |-> <<>>, clean |-> FALSE,
   m |-> marks, inp |-> inp, mem |-> mem, data |-> <<>>]

\* the target's SELECT names bank 0 of the memory AP
MemApSelected(c) ==
  chip.naps > 0 /\ ap_sel(c.t.select) = 0 /\ ap_bank_sel(c.t.select) = 0

\* one transfer, or a block of n transfers, to register R of the AP the
\* target's SELECT names; it acts on the memory AP when SELECT names its bank 0
MemApTransfer(c, R, w, n, val, data) ==
  LET failing == (Len(c.log) + 1 = c.inp.fail)
      reached == /\ MemApSelected(c)
                 /\ IF w THEN ~failing \/ c.inp.failKind = "Io" ELSE ~failing
  IN  [c EXCEPT
         !.t = IF failing /\ c.inp.failKind = "FaultResponse"
               THEN [@ EXCEPT !.stickyerr = TRUE] ELSE @,
         !.log = Append(@, [port |-> AccessPort(c.s.current_apsel),
                            addr |-> AP_ADDRESS(R), w |-> w, val |-> {},
                            ok |-> ~failing, tsel |-> c.t.select,
                            req |-> ApReq(0, R), clean |-> c.clean,
                            n |-> n, word |-> val]),
         !.err = IF failing THEN c.inp.failKind ELSE Ok,
         !.clean = @ /\ ~failing,
         !.mem = IF ~reached THEN c.mem
                 ELSE CASE R = "CSW" -> [c.mem EXCEPT !.csw = val]
                        [] R = "TAR" -> [c.mem EXCEPT !.tar = val]
                        [] R = "DRW" /\ w -> DrwWriteBlock(c.mem, data)
                        [] R = "DRW" /\ ~w ->
                             [c.mem EXCEPT !.tar = DrwAddress(c.mem, c.mem.tar, n)],
         !.data = IF failing \/ R # "DRW" \/ w THEN @
                  ELSE IF MemApSelected(c) THEN @ \o DrwReadBlock(c.mem, n)
                  ELSE @ \o [k \in 1..n |->
                               SumBits(TargetRead(c, AccessPort(0), AP_ADDRESS(R)), 0)]]

\* APAccess::write_ap_register, write_ap_register_repeated and
\* read_ap_register_repeated on the memory AP (port 0)
MemApAccess(c, R, w, n, val, data) ==
  Then(select_ap_and_ap_bank(c, 0, APBANKSEL(R)),
       LAMBDA c1 : MemApTransfer(c1, R, w, n, val, data))

\* step 1: CSW is written when it differs from the cached one
set_csw(c) ==
  IF c.mem.cache = CswDefault THEN c
  ELSE Then(MemApAccess(c, "CSW", TRUE, 1, CswDefault, <<>>), LAMBDA c1 :
       [c1 EXCEPT !.mem.cache = CswDefault])

\* step 2: the slices [lo, hi) of n words from address, one per window touched
WindowSlices(address, n) ==
  IF n = 0 THEN <<>>
  ELSE [i \in 1..((address + 4 * n - 1) \div TarWindow - address \div TarWindow + 1) |->
          [lo |-> IF i = 1 THEN address
                  ELSE (address \div TarWindow + i - 1) * TarWindow,
           hi |-> IF (address \div TarWindow + i) * TarWindow < address + 4 * n
                  THEN (address \div TarWindow + i) * TarWindow
                  ELSE address + 4 * n]]

\* step 2a and 2b for the slices from the i-th on
RECURSIVE TransferSlices(_, _, _, _, _, _)
TransferSlices(c, slices, i, w, address, data) ==
  IF i > Len(slices) THEN c
  ELSE Then(MemApAccess(c, "TAR", TRUE, 1, slices[i].lo, <<>>), LAMBDA c1 :
       Then(MemApAccess(c1, "DRW", w, (slices[i].hi - slices[i].lo) \div 4, 0,
                      IF w THEN SubSeq(data, (slices[i].lo - address) \div 4 + 1,
                                       (slices[i].hi - address) \div 4)
                      ELSE <<>>), LAMBDA c2 :
       TransferSlices(c2, slices, i + 1, w, address, data)))

\* step 3: every transfer was made in program order; nothing is left to send
flush(c) == c

\* the block algorithm for width 32
TransferBlock32(c, w, address, n, data) ==
  IF address % 4 # 0 THEN [c EXCEPT !.err = "UnalignedAddress"]
  ELSE Then(set_csw(c), LAMBDA c1 :
       Then(TransferSlices(c1, WindowSlices(address, n), 1, w, address, data), flush))

\* M4::write_32, through Memory::write_32
write_32(c, address, data) == TransferBlock32(c, TRUE, address, Len(data), data)
\* M4::read_32, through Memory::read_32
read_32(c, address, n) == TransferBlock32(c, FALSE, address, n, <<>>)

MemAddresses == {RamBase, RamBase + 1020, RamBase + 2}
MemLengths == {1, 1024}
\* the sample data: words that differ from each other
SampleData(n) == [i \in 1..n |-> 1000 + i]
MemInputs == Inputs(MaxMemFail, {IdrZero}, {{}})

\* a probe on a chip whose RAM is clear
InitMem ==
  /\ has_dap = TRUE
  /\ chip \in {ch \in Chips : ch.dpidr_version = 1 /\ ch.naps = 1 /\ ch.only32}
  /\ state = NewState
  /\ target = ResetTarget
  /\ log = <<>>
  /\ lastop = NoResult
  /\ pre = NoPre
  /\ marks = NoMarks
  /\ attempts = 0
  /\ core = NewCortexState
  /\ mcu = ResetMcu
  /\ dl = NoDownload
  /\ mem = [tar |-> 0, csw |-> CswReset, cache |-> NoCsw,
            ram |-> [x \in 1..RamWords |-> 0],
            halted |-> FALSE, stores |-> 0, wr |-> NoWrite, rd |-> NoRead]

memunchanged == <<has_dap, chip, lastop, pre, attempts, core, mcu, dl>>

\* a call of the memory interface ends in context c
MemFinish(c) ==
  /\ state' = c.s
  /\ target' = c.t
  /\ marks' = c.m
  /\ log' = c.log
  /\ UNCHANGED memunchanged

\* core.halt() of the example
HaltCore ==
  /\ HasInterface
  /\ ~mem.halted
  /\ mem.wr = NoWrite
  /\ mem' = [mem EXCEPT !.halted = TRUE]
  /\ UNCHANGED <<state, target, marks, log, memunchanged>>

\* the running core stores a word to its RAM
TargetStore ==
  /\ ~mem.halted
  /\ mem.stores = 0
  /\ mem.wr # NoWrite
  /\ mem.rd = NoRead
  /\ mem' = [mem EXCEPT !.ram[1] = 7, !.stores = 1]
  /\ UNCHANGED <<state, target, marks, log, memunchanged>>

\* a register of an AP is read before the transfer; the SELECT write may fail
MemReadApRegister ==
  /\ HasInterface
  /\ mem.wr = NoWrite
  /\ \E port \in Ports, inp \in Inputs(1, {IdrZero}, {{}}) :
       Finish(read_ap_register(Ctx(inp), port, "CSW"),
              Op("read_ap_register", port, "CSW", 1))
  /\ UNCHANGED attempts

WriteFinish(c, address, data) ==
  /\ MemFinish(c)
  /\ mem' = [c.mem EXCEPT !.wr = [addr |-> address, data |-> data, err |-> c.err,
                                  halted |-> mem.halted]]

ReadFinish(c, address, n) ==
  /\ MemFinish(c)
  /\ mem' = [c.mem EXCEPT !.rd = [addr |-> address, n |-> n, data |-> c.data,
                                  err |-> c.err]]

\* core.write_32(address, &sample_data)
Write32 ==
  /\ HasInterface
  /\ mem.wr = NoWrite
  /\ \E address \in MemAddresses, n \in MemLengths, inp \in MemInputs :
       WriteFinish(write_32(MemCtx(inp), address, SampleData(n)), address,
                   SampleData(n))

\* core.read_32(address, &mut readback_data): the address and the length of
\* the write
Read32 ==
  /\ HasInterface
  /\ mem.wr # NoWrite
  /\ mem.rd = NoRead
  /\ \E inp \in MemInputs :
       ReadFinish(read_32(MemCtx(inp), mem.wr.addr, Len(mem.wr.data)),
                  mem.wr.addr, Len(mem.wr.data))

NextMem ==
  \/ Attach
  \/ HaltCore
  \/ TargetStore
  \/ MemReadApRegister
  \/ Return
  \/ Write32
  \/ Read32

SpecMem == InitMem /\ [][NextMem]_vars

\* ========================================================= port encoding
U16 == 0..65535
PortTypes == {DebugPort} \cup {AccessPort(n) : n \in U16}

\* no conversion was made: every variable has its value after construction
InitConversions ==
  /\ has_dap = TRUE
  /\ chip \in {ch \in Chips : ch.dpidr_version = 1 /\ ch.naps = 1 /\ ch.only32}
  /\ state = NewState
  /\ target = ResetTarget
  /\ log = <<>>
  /\ lastop = NoResult
  /\ pre = NoPre
  /\ marks = NoMarks
  /\ attempts = 0
  /\ core = NewCortexState
  /\ mcu = ResetMcu
  /\ dl = NoDownload
  /\ mem = NoMem

convunchanged ==
  <<has_dap, chip, state, target, lastop, pre, marks, attempts, core, mcu, dl, mem>>

\* PortType::from(w), and u16::from of the result
PortFromCall ==
  /\ log = <<>>
  /\ \E w \in U16 :
       log' = <<[conv |-> "PortType::from", w |-> w, p |-> PortFromU16(w),
                 back |-> PortToU16(PortFromU16(w))]>>
  /\ UNCHANGED convunchanged

\* u16::from(p), and PortType::from of the result
PortIntoCall ==
  /\ log = <<>>
  /\ \E p \in PortTypes :
       log' = <<[conv |-> "u16::from", p |-> p, w |-> PortToU16(p),
                 back |-> PortFromU16(PortToU16(p))]>>
  /\ UNCHANGED convunchanged

NextPort ==
  \/ PortFromCall
  \/ PortIntoCall

SpecPort == InitConversions /\ [][NextPort]_vars

\* ================================================================== SWO
\* the longest response buffer
MaxSwoLen == 5
SwoBytes == {0, 1, 2, 193}
SwoBuffers == UNION {[1..n -> SwoBytes] : n \in 0..MaxSwoLen}
SwoOffsets == 0..2

\* TraceStatus::from(u8)
TraceStatus_from(value) ==
  [active |-> value % 2 = 1,
   error |-> (value \div 64) % 2 = 1,
   overrun |-> (value \div 128) % 2 = 1]

\* buffer.pread_with::<u16>(at, LE): an error when the two bytes are not there
PreadU16Fails(buffer, at) == at + 2 > Len(buffer)
PreadU16LE(buffer, at) == buffer[at + 1] + 256 * buffer[at + 2]

\* DataResponse::from_bytes(buffer, offset): indexing past the end and the
\* expect on a failed pread panic
DataResponse_from_bytes(buffer, offset) ==
  IF offset >= Len(buffer) \/ PreadU16Fails(buffer, offset + 1)
  THEN [err |-> "Panic", status |-> TraceStatus_from(0), data |-> <<>>]
  ELSE IF offset + 3 + PreadU16LE(buffer, offset + 1) > Len(buffer)
  THEN [err |-> "ShortRead", status |-> TraceStatus_from(0), data |-> <<>>]
  ELSE [err |-> Ok, status |-> TraceStatus_from(buffer[offset + 1]),
        data |-> SubSeq(buffer, offset + 3 + 1,
                        offset + 3 + PreadU16LE(buffer, offset + 1))]

\* a response is decoded
DataResponseCall ==
  /\ log = <<>>
  /\ \E buffer \in SwoBuffers, offset \in SwoOffsets :
       log' = <<[conv |-> "DataResponse::from_bytes", buffer |-> buffer,
                 offset |-> offset, res |-> DataResponse_from_bytes(buffer, offset)]>>
  /\ UNCHANGED convunchanged

NextSwo == DataResponseCall

SpecSwo == InitConversions /\ [][NextSwo]_vars

\* ===================================================== properties, DP/AP layer
ApAccessNames ==
  {"read_ap_register", "write_ap_register",
   "read_ap_register_repeated", "write_ap_register_repeated"}
DpAccessNames == {"read_dp_register", "write_dp_register"}

\* the SELECT cache of a state
CacheOf(s) ==
  [apsel |-> s.current_apsel, apbanksel |-> s.current_apbanksel,
   dpbanksel |-> s.current_dpbanksel]

\* the (apsel, apbanksel, dpbanksel) the last access requires: an AP access requires
\* its port and its register's bank, a banked DP register its bank, and what an
\* access does not care about is required as the cache has it
Required ==
  IF lastop.op.name \in ApAccessNames
  THEN [apsel |-> lastop.op.port, apbanksel |-> APBANKSEL(lastop.op.reg),
        dpbanksel |-> pre.s.current_dpbanksel]
  ELSE [apsel |-> pre.s.current_apsel, apbanksel |-> pre.s.current_apbanksel,
        dpbanksel |-> IF DP_BANK(lastop.op.reg) = DontCare
                      THEN pre.s.current_dpbanksel ELSE DP_BANK(lastop.op.reg)]

SuccessfulAccess ==
  /\ lastop.op.name \in ApAccessNames \cup DpAccessNames
  /\ lastop.err = Ok

\* C1: a successful DP or AP register access emits one SELECT write when the tuple
\* it requires differs from the cached one and none when it equals the cache, and
\* leaves the required tuple in the cache (so the SELECT writes of a sequence of
\* accesses are as many as the changes of the required tuple).
C1_SelectElision ==
  SuccessfulAccess =>
    /\ Cardinality(DpWrites(log, 8)) = (IF Required # CacheOf(pre.s) THEN 1 ELSE 0)
    /\ CacheOf(state) = Required

C1_Witness ==
  /\ SuccessfulAccess
  /\ lastop.op.name = "read_ap_register"
  /\ Required # CacheOf(pre.s)
  /\ pre.s.current_apsel # lastop.op.port
  /\ Cardinality(DpWrites(log, 8)) = 1

\* C2: after a successful power-up, every AP register transfer of a successful
\* call reaches the transport while the last SELECT value the target has taken
\* names the requested port and the register's bank, and is addressed to that port.
C2_SelectBeforeAccess ==
  \A i \in 1..Len(log) :
    (~log[i].port.dp /\ log[i].clean /\ log[i].ok) =>
      /\ ap_sel(log[i].tsel) = log[i].req.port
      /\ ap_bank_sel(log[i].tsel) = log[i].req.bank
      /\ log[i].port.n = log[i].req.port

\* C3: a DP register whose version exceeds the latched one is refused with
\* UnsupportedRegister, without any transaction and with the SELECT cache unchanged.
C3_VersionGating ==
  (/\ lastop.op.name \in DpAccessNames
   /\ VersionRank(DP_VERSION(lastop.op.reg)) > VersionRank(pre.s.debug_port_version))
  => /\ lastop.err = "UnsupportedRegister"
     /\ log = <<>>
     /\ CacheOf(state) = CacheOf(pre.s)

C3_Witness ==
  /\ lastop.op.name = "write_dp_register"
  /\ lastop.op.reg = "TARGETID"
  /\ pre.s.debug_port_version = "DPv1"
  /\ pre.s.current_dpbanksel # DP_BANK("TARGETID")
  /\ lastop.err = "UnsupportedRegister"

AttachNames == {"new", "reborrow"}

\* C4 as stated: whatever the outcome of the calls, the power-up transactions are
\* issued exactly once in the session, and a call on an initialized state issues
\* no transaction.
C4_PowerUpExactlyOnce ==
  /\ state.initialized =>
       marks.n_abort = 1 /\ marks.n_select = 1 /\ marks.n_pwrreq = 1
  /\ (lastop.op.name \in AttachNames /\ pre.s.initialized) => log = <<>>

\* C4, amended: only a new() that finds the state uninitialized issues power-up
\* transactions, each at most once per call and each exactly once when the call
\* succeeds; a new() that fails leaves the state uninitialized, so that the next
\* new() issues the power-up again; a call on an initialized state (new or
\* reborrow) issues no transaction and changes nothing.
C4_PowerUpOncePerAttach ==
  lastop.op.name \in AttachNames =>
    IF pre.s.initialized \/ ~has_dap
    THEN log = <<>> /\ marks = pre.m /\ state = pre.s /\ lastop.err = Ok
    ELSE /\ marks.n_abort - pre.m.n_abort = Cardinality(DpWrites(log, 0))
         /\ marks.n_abort - pre.m.n_abort \in {0, 1}
         /\ marks.n_select - pre.m.n_select \in {0, 1}
         /\ marks.n_pwrreq - pre.m.n_pwrreq \in {0, 1}
         /\ state.initialized <=> lastop.err = Ok
         /\ lastop.err = Ok =>
              /\ marks.n_abort = pre.m.n_abort + 1
              /\ marks.n_select = pre.m.n_select + 1
              /\ marks.n_pwrreq = pre.m.n_pwrreq + 1

\* a call on an initialized state, after the power-up has been issued twice
C4_Witness ==
  /\ lastop.op.name = "new"
  /\ pre.s.initialized
  /\ marks.n_abort = 2
  /\ marks.n_pwrreq = 2

\* C5: every entry of ap_information sits at the index of its port.
C5_InventoryIndex ==
  \A i \in 1..Len(state.ap_information) :
    state.ap_information[i].port_number = i - 1

\* the last call is a new() whose enter_debug_mode read CTRL/STAT back without
\* one of the acknowledge bits
PowerUpNotAcknowledged ==
  /\ lastop.op.name = "new"
  /\ has_dap /\ ~pre.s.initialized
  /\ Len(log) = 6
  /\ log[6].port.dp /\ ~log[6].w /\ log[6].addr = 4 /\ log[6].ok
  /\ ~(csyspwrupack(log[6].val) /\ cdbgpwrupack(log[6].val))

\* C6: when CTRL/STAT is read back without CSYSPWRUPACK or without CDBGPWRUPACK,
\* the call fails with TargetPowerUpFailed, no AP register is accessed, the state
\* is not initialized and ap_information is empty.
C6_PowerUpFailure ==
  PowerUpNotAcknowledged =>
    /\ lastop.err = "TargetPowerUpFailed"
    /\ \A i \in 1..Len(log) : log[i].port.dp
    /\ ~state.initialized
    /\ state.ap_information = <<>>

\* the last call is an AP register access that a FAULT or WAIT response to an AP
\* transaction ended
ApTransactionFaulted ==
  /\ lastop.op.name \in ApAccessNames
  /\ lastop.err \in {"FaultResponse", "WaitResponse"}
  /\ \E i \in 1..Len(log) : ~log[i].ok /\ ~log[i].port.dp

\* C7: after the FAULT or WAIT response to an AP transaction the stack reads
\* CTRL/STAT, writes ABORT once and does not issue the failed transaction again.
C7_StickyFaultRecovery ==
  ApTransactionFaulted =>
    \E i \in 1..Len(log) :
      /\ ~log[i].ok /\ ~log[i].port.dp
      /\ Len(log) = i + 2
      /\ log[i + 1].port.dp /\ ~log[i + 1].w /\ log[i + 1].addr = 4
      /\ log[i + 2].port.dp /\ log[i + 2].w /\ log[i + 2].addr = 0

\* C8: when the last SELECT write of the session failed, an access that requires
\* the tuple the cache holds starts with a SELECT write of that tuple.
C8_SelectReissued ==
  (/\ lastop.op.name \in ApAccessNames \cup DpAccessNames
   /\ pre.m.dirty
   /\ Required = CacheOf(pre.s)
   /\ log # <<>>)
  => /\ log[1].port.dp /\ log[1].w /\ log[1].addr = 8
     /\ log[1].val = SelectWord(Required.apsel, Required.apbanksel, Required.dpbanksel)

\* ====================================================== properties, core layer
CoreOpNames ==
  {"M4::new", "status", "halt", "step", "reset_and_halt", "run", "reset",
   "read_core_reg", "write_core_reg"}

\* the reads of the register reg in the last operation's accesses
ReadsOf(reg) == {i \in 1..Len(log) : log[i].reg = reg /\ ~log[i].w /\ log[i].ok}
WritesOf(reg) == {i \in 1..Len(log) : log[i].reg = reg /\ log[i].w}

\* the last operation read DHCSR with S_HALT set and S_SLEEP clear
HaltObserved ==
  \E i \in ReadsOf("DHCSR") : s_halt(log[i].val) /\ ~s_sleep(log[i].val)

\* C9: an operation of the core layer that leaves a Halted state in the cache
\* which was not there before has read DHCSR with S_HALT set and S_SLEEP clear.
C9_HaltedOnlyObserved ==
  (/\ lastop.op.name \in CoreOpNames
   /\ is_halted(core.current_state)
   /\ core.current_state # pre.k.current_state)
  => HaltObserved

C9_Witness ==
  /\ lastop.op.name = "halt"
  /\ lastop.err = Ok
  /\ pre.k.current_state = Running
  /\ core.current_state = Halted("BKPT")
  /\ HaltObserved

\* C10: halt() writes DHCSR once, with the key, C_HALT and C_DEBUGEN, before it
\* polls; when it returns success the cached state is Halted with the reason that
\* DFSR gave, whatever the target shows after the poll that observed S_HALT.
C10_HaltTransition ==
  lastop.op.name = "halt" =>
    /\ WritesOf("DHCSR") = {1}
    /\ log[1].val = DhcsrHalt
    /\ Field(log[1].val, 31, 16) = 41055
    /\ lastop.err = Ok =>
         /\ is_halted(core.current_state)
         /\ \E i \in ReadsOf("DFSR") :
              core.current_state = Halted(halt_reason(log[i].val))

\* what status() makes of the DHCSR value v
Classified(v) ==
  IF s_sleep(v) THEN "Sleeping" ELSE IF s_halt(v) THEN "Halted" ELSE "Running"

\* C11: run() writes DHCSR once, with the key, C_DEBUGEN set and C_HALT clear, and
\* when the write succeeds caches Running without any read of the target; the
\* status() that follows caches and returns what the DHCSR it reads reports,
\* Halted for a core that did not resume.
C11_RunOptimistic ==
  /\ lastop.op.name = "run" =>
       /\ Len(log) = 1
       /\ log[1].reg = "DHCSR" /\ log[1].w
       /\ Field(log[1].val, 31, 16) = 41055
       /\ c_debugen(log[1].val) /\ 1 \notin log[1].val
       /\ core.current_state = (IF lastop.err = Ok THEN Running ELSE pre.k.current_state)
  /\ (lastop.op.name = "status" /\ lastop.err = Ok /\ pre.m.ran) =>
       /\ pre.k.current_state = Running
       /\ lastop.res.status = Classified(log[1].val)
       /\ core.current_state = lastop.res

\* the status() after a run() finds the core halted
C11_Witness ==
  /\ lastop.op.name = "status" /\ lastop.err = Ok
  /\ pre.m.ran
  /\ s_halt(log[1].val)
  /\ is_halted(core.current_state)
  /\ is_halted(lastop.res)

\* C12: reset() writes AIRCR once, with VECTKEY 0x05FA and SYSRESETREQ and no other
\* request bit, and when it succeeds the cached state is Unknown.
C12_ResetTransition ==
  lastop.op.name = "reset" =>
    /\ Len(log) = 1
    /\ log[1].reg = "AIRCR" /\ log[1].w
    /\ Field(log[1].val, 31, 16) = 1530
    /\ 2 \in log[1].val /\ 1 \notin log[1].val /\ 0 \notin log[1].val
    /\ lastop.err = Ok => core.current_state.status = "Unknown"

MinOf(S) == CHOOSE x \in S : \A y \in S : x <= y
MaxOf(S) == CHOOSE x \in S : \A y \in S : x >= y

ResetAndHaltSucceeded == lastop.op.name = "reset_and_halt" /\ lastop.err = Ok

\* C13: when reset_and_halt() succeeds, the last value it wrote to DEMCR is the
\* value it read from DEMCR at its start, whether it had to set VC_CORERESET or not,
\* and DEMCR holds that value again.
C13_DemcrRestored ==
  ResetAndHaltSucceeded =>
    /\ ReadsOf("DEMCR") # {} /\ WritesOf("DEMCR") # {}
    /\ log[MaxOf(WritesOf("DEMCR"))].val = log[MinOf(ReadsOf("DEMCR"))].val
    /\ log[MaxOf(WritesOf("DEMCR"))].ok
    /\ MinOf(ReadsOf("DEMCR")) < MinOf(WritesOf("AIRCR"))
    /\ MaxOf(WritesOf("DEMCR")) > MinOf(WritesOf("AIRCR"))
    /\ log[MinOf(ReadsOf("DEMCR"))].val = pre.u.demcr
    /\ mcu.demcr = pre.u.demcr

\* VC_CORERESET was clear: the call set it and restored DEMCR
C13_Witness ==
  /\ ResetAndHaltSucceeded
  /\ ~vc_corereset(pre.u.demcr)
  /\ Cardinality(WritesOf("DEMCR")) = 2
  /\ vc_corereset(log[MinOf(WritesOf("DEMCR"))].val)
  /\ mcu.demcr = pre.u.demcr

\* the DCRDR read that gave XPSR: the first of the call
XpsrRead == MinOf(ReadsOf("DCRDR"))

\* C14: when reset_and_halt() succeeds and the XPSR it read has bit 24 clear, it
\* has written XPSR back through DCRDR/DCRSR as the value read with bit 24 set and
\* the other bits unchanged, and S_REGRDY was seen after it; when bit 24 was set,
\* XPSR is not written.
C14_ThumbBit ==
  ResetAndHaltSucceeded =>
    /\ ReadsOf("DCRDR") # {}
    /\ log[XpsrRead - 2].reg = "DCRSR" =>
         log[XpsrRead - 2].val = Dcrsr(FALSE, XPSR)
    /\ \E d \in WritesOf("DCRSR") :
         d < XpsrRead /\ log[d].val = Dcrsr(FALSE, XPSR)
           /\ \A e \in WritesOf("DCRSR") : d <= e
    /\ IF 24 \in log[XpsrRead].val
       THEN WritesOf("DCRDR") = {}
       ELSE /\ WritesOf("DCRDR") = {XpsrRead + 1}
            /\ log[XpsrRead + 1].val = log[XpsrRead].val \cup {24}
            /\ log[XpsrRead + 2].reg = "DCRSR" /\ log[XpsrRead + 2].w
            /\ log[XpsrRead + 2].val = Dcrsr(TRUE, XPSR)
            /\ \E i \in ReadsOf("DHCSR") :
                 /\ i > XpsrRead + 2
                 /\ s_regrdy(log[i].val)
                 /\ i < MaxOf(WritesOf("DEMCR"))

C14_Witness ==
  /\ ResetAndHaltSucceeded
  /\ log[XpsrRead].val = {30}
  /\ log[XpsrRead + 1].w /\ log[XpsrRead + 1].val = {24, 30}

StatusCalled == lastop.op.name = "status"

\* C15: status() reads DHCSR once; with S_SLEEP set (S_HALT set or not) it returns
\* Sleeping; otherwise with S_HALT set it reads DFSR, writes DFSR to clear all the
\* sticky bits and returns Halted; otherwise it returns Running. The cached state
\* after a successful call is the returned status, and finding a core cached as
\* Halted sleeping or running is a success.
C15_StatusClassification ==
  StatusCalled =>
    /\ log[1].reg = "DHCSR" /\ ~log[1].w
    /\ ~log[1].ok => (lastop.err # Ok /\ Len(log) = 1)
    /\ (log[1].ok /\ Classified(log[1].val) # "Halted") =>
         /\ lastop.err = Ok
         /\ Len(log) = 1
    /\ (log[1].ok /\ Classified(log[1].val) = "Halted") =>
         /\ Len(log) >= 2
         /\ log[2].reg = "DFSR" /\ ~log[2].w
         /\ log[2].ok =>
              /\ Len(log) = 3
              /\ log[3].reg = "DFSR" /\ log[3].w /\ log[3].val = DfsrClearAll
              /\ lastop.err = Ok <=> log[3].ok
    /\ lastop.err = Ok =>
         /\ lastop.res.status = Classified(log[1].val)
         /\ core.current_state = lastop.res
    /\ lastop.err # Ok => core.current_state = pre.k.current_state

\* a core cached as Halted is found sleeping with S_HALT still set
C15_Witness ==
  /\ StatusCalled /\ lastop.err = Ok
  /\ is_halted(pre.k.current_state)
  /\ s_sleep(log[1].val) /\ s_halt(log[1].val)
  /\ lastop.res = Sleeping
  /\ core.current_state = Sleeping

\* the DHCSR reads that directly follow log entry i
RunOf(i) ==
  {j \in (i + 1)..Len(log) :
     \A k \in (i + 1)..j : log[k].reg = "DHCSR" /\ ~log[k].w}

\* the reads of the wait started by entry i: those of the run up to the first
\* one that shows the awaited bit
PollsOf(i, bit) ==
  LET r == RunOf(i)
  IN  {j \in r : \A k \in r : k < j => ~(log[k].ok /\ bit \in log[k].val)}

\* the requests wait_for_core_halted waits for
HaltWaitStarts ==
  IF lastop.op.name \in {"halt", "step"} THEN WritesOf("DHCSR")
  ELSE IF lastop.op.name = "reset_and_halt" THEN WritesOf("AIRCR")
  ELSE {}

\* the requests wait_for_core_register_transfer waits for
RegisterWaitStarts == WritesOf("DCRSR")

AllClear(p, bit) == \A j \in p : log[j].ok /\ bit \notin log[j].val

BoundedWait(i, bit) ==
  LET p == PollsOf(i, bit)
  IN  /\ Cardinality(p) <= PollLimit
      /\ AllClear(p, bit) =>
           /\ Cardinality(p) = PollLimit
           /\ lastop.err = "Timeout"
           /\ Len(log) = i + PollLimit

\* C16: a wait for S_HALT or S_REGRDY reads DHCSR at most 100 times; when the bit
\* is clear in all 100 reads the operation ends there with Timeout; the request
\* that started the wait (DHCSR, AIRCR or DCRSR write) is written once and not
\* again; and Timeout is returned in no other case.
C16_BoundedPolling ==
  lastop.op.name \in CoreOpNames =>
    /\ \A i \in HaltWaitStarts : log[i].ok => BoundedWait(i, 17)
    /\ \A i \in RegisterWaitStarts : log[i].ok => BoundedWait(i, 16)
    /\ Cardinality(HaltWaitStarts) <= 1
    /\ \A i, j \in RegisterWaitStarts : log[i].val = log[j].val => i = j
    /\ lastop.err = "Timeout" =>
         \/ \E i \in HaltWaitStarts : AllClear(PollsOf(i, 17), 17)
         \/ \E i \in RegisterWaitStarts : AllClear(PollsOf(i, 16), 16)

\* halt() gave up after 100 reads without S_HALT
C16_Witness ==
  /\ lastop.op.name = "halt"
  /\ lastop.err = "Timeout"
  /\ Len(log) = PollLimit + 1
  /\ log[1].w /\ log[1].reg = "DHCSR"
  /\ \A j \in 2..Len(log) : log[j].reg = "DHCSR" /\ ~log[j].w /\ ~s_halt(log[j].val)

\* a register transfer gave up after 100 reads without S_REGRDY
C16_WitnessRegister ==
  /\ lastop.op.name = "read_core_reg"
  /\ lastop.err = "Timeout"
  /\ Len(log) = PollLimit + 1
  /\ log[1].w /\ log[1].reg = "DCRSR"

\* C17: step() writes DHCSR once, with the key, C_STEP, C_DEBUGEN and C_MASKINTS
\* set and C_HALT clear, then polls DHCSR for S_HALT; when it returns success the
\* cached state is Halted and PC was read after S_HALT was observed.
C17_StepTransition ==
  lastop.op.name = "step" =>
    /\ WritesOf("DHCSR") = {1}
    /\ Field(log[1].val, 31, 16) = 41055
    /\ {2, 0, 3} \subseteq log[1].val /\ 1 \notin log[1].val
    /\ lastop.err = Ok =>
         /\ is_halted(core.current_state)
         /\ \E i \in ReadsOf("DHCSR"), j \in WritesOf("DCRSR"), d \in ReadsOf("DCRDR") :
              /\ s_halt(log[i].val)
              /\ i < j /\ j < d
              /\ log[j].val = Dcrsr(FALSE, PC)

\* ======================================================== properties, FPB
\* set_breakpoint read FP_CTRL and found revision rev
SetBreakpointOn(rev) ==
  /\ lastop.op.name = "set_breakpoint"
  /\ log[1].reg = "FP_CTRL" /\ ~log[1].w /\ log[1].ok
  /\ FpCtrl_rev(log[1].val) = rev

FpCompNames == {FpComp(i) : i \in BpUnits}
ComparatorWrites == {i \in 1..Len(log) : log[i].w /\ log[i].reg \in FpCompNames}

WordAligned(a) == 0 \notin a /\ 1 \notin a
InLow512MiB(a) == \A b \in a : b <= 28

\* C18: on an FPB of revision 0 the comparator value written for a word-aligned
\* address addr <= 0x1FFF_FFFC has COMP = addr >> 2, REPLACE = 0b01 and ENABLE
\* set, that is addr | 0x4000_0001; for an address with addr & 3 # 0 REPLACE is
\* 0b10.
C18_Rev0Encoding ==
  (SetBreakpointOn(0) /\ Len(log) = 2) =>
    /\ log[2].w /\ log[2].reg = FpComp(lastop.op.n)
    /\ (WordAligned(lastop.op.addr) /\ InLow512MiB(lastop.op.addr)) =>
         /\ Field(log[2].val, 28, 2) = Field(lastop.op.addr, 31, 2)
         /\ Field(log[2].val, 31, 30) = 1
         /\ 0 \in log[2].val
         /\ log[2].val = lastop.op.addr \cup {30, 0}
    /\ ~WordAligned(lastop.op.addr) => Field(log[2].val, 31, 30) = 2

\* 0x0800_09A4 is written as 0x4800_09A5
C18_Witness ==
  /\ SetBreakpointOn(0) /\ lastop.err = Ok
  /\ lastop.op.addr = {27, 11, 8, 7, 5, 2}
  /\ Len(log) = 2
  /\ log[2].val = {30, 27, 11, 8, 7, 5, 2, 0}

\* C19: on an FPB of revision 0, set_breakpoint with an address of 0x2000_0000 or
\* above fails with UnsupportedBreakpointAddress and writes no comparator.
C19_Rev0AddressRange ==
  (SetBreakpointOn(0) /\ ~InLow512MiB(lastop.op.addr)) =>
    /\ lastop.err = "UnsupportedBreakpointAddress"
    /\ ComparatorWrites = {}

\* C20: when FP_CTRL reports a revision other than 0 or 1,
\* get_available_breakpoint_units and set_breakpoint fail and no comparator is
\* written; with revision 0 or 1, get_available_breakpoint_units returns
\* (FP_CTRL[14:12] << 4) | FP_CTRL[7:4].
C20_FpbRevision ==
  (/\ lastop.op.name \in {"get_available_breakpoint_units", "set_breakpoint"}
   /\ Len(log) >= 1 /\ log[1].ok) =>
    /\ log[1].reg = "FP_CTRL" /\ ~log[1].w
    /\ FpCtrl_rev(log[1].val) \notin {0, 1} =>
         /\ lastop.err # Ok
         /\ Len(log) = 1
         /\ ComparatorWrites = {}
    /\ (FpCtrl_rev(log[1].val) \in {0, 1}
          /\ lastop.op.name = "get_available_breakpoint_units") =>
         /\ lastop.err = Ok
         /\ Len(log) = 1
         /\ Field(lastop.ret, 31, 0) =
              Field(log[1].val, 14, 12) * 16 + Field(log[1].val, 7, 4)

\* set_breakpoint on an FPB of revision 2 fails without a write
C20_Witness ==
  /\ lastop.op.name = "set_breakpoint"
  /\ log[1].ok /\ FpCtrl_rev(log[1].val) = 2
  /\ lastop.err = "Unknown"
  /\ Len(log) = 1

\* get_available_breakpoint_units on an FPB of revision 1 with NUM_CODE = 0x6A
C20_WitnessUnits ==
  /\ lastop.op.name = "get_available_breakpoint_units"
  /\ lastop.err = Ok
  /\ FpCtrl_rev(log[1].val) = 1
  /\ Field(lastop.ret, 31, 0) = 106

\* a read of DHCSR that showed S_REGRDY, respectively S_HALT
RegRdyReads == {i \in ReadsOf("DHCSR") : s_regrdy(log[i].val)}
HaltReads == {i \in ReadsOf("DHCSR") : s_halt(log[i].val)}

\* C26: read_core_reg(r) first writes DCRSR with REGWNR = 0 and REGSEL = r, reads
\* DCRDR only right after a DHCSR read that showed S_REGRDY, and returns the value
\* DCRDR read as; when S_REGRDY is never seen, DCRDR is not read and the call fails.
C26_ReadHandshake ==
  lastop.op.name = "read_core_reg" =>
    /\ log[1].reg = "DCRSR" /\ log[1].w
    /\ 16 \notin log[1].val /\ Field(log[1].val, 6, 0) = lastop.op.port
    /\ log[1].val = Dcrsr(FALSE, lastop.op.port)
    /\ WritesOf("DCRSR") = {1}
    /\ \A d \in 1..Len(log) :
         log[d].reg = "DCRDR" =>
           /\ ~log[d].w
           /\ d = Len(log)
           /\ (d - 1) \in RegRdyReads
           /\ \A i \in RegRdyReads : i = d - 1
    /\ lastop.err = Ok =>
         /\ ReadsOf("DCRDR") = {Len(log)}
         /\ lastop.ret = log[Len(log)].val
    /\ RegRdyReads = {} =>
         /\ \A d \in 1..Len(log) : log[d].reg # "DCRDR"
         /\ lastop.err # Ok

\* the register is read after S_REGRDY showed in the last of 100 polls
C26_Witness ==
  /\ lastop.op.name = "read_core_reg" /\ lastop.err = Ok
  /\ lastop.op.port = XPSR
  /\ Len(log) = PollLimit + 2
  /\ RegRdyReads = {PollLimit + 1}
  /\ lastop.ret = {24, 30}

\* C27: write_core_reg(r, v) writes DCRDR = v and then DCRSR with REGWNR = 1 and
\* REGSEL = r; it succeeds only when a DHCSR read after the DCRSR write showed
\* S_REGRDY; when the DCRDR write fails DCRSR is not written.
C27_WriteHandshake ==
  lastop.op.name = "write_core_reg" =>
    /\ log[1].reg = "DCRDR" /\ log[1].w /\ log[1].val = lastop.op.value
    /\ WritesOf("DCRDR") = {1}
    /\ ~log[1].ok => (Len(log) = 1 /\ lastop.err # Ok)
    /\ log[1].ok =>
         /\ Len(log) >= 2
         /\ log[2].reg = "DCRSR" /\ log[2].w
         /\ 16 \in log[2].val /\ Field(log[2].val, 6, 0) = lastop.op.port
         /\ log[2].val = Dcrsr(TRUE, lastop.op.port)
    /\ WritesOf("DCRSR") \subseteq {2}
    /\ lastop.err = Ok =>
         /\ log[2].ok
         /\ RegRdyReads = {Len(log)}
         /\ Len(log) > 2

C27_Witness ==
  /\ lastop.op.name = "write_core_reg" /\ lastop.err = Ok
  /\ lastop.op.port = XPSR /\ lastop.op.value = {30, 0}
  /\ log[1].val = {30, 0}
  /\ log[2].val = {16, 4}
  /\ Len(log) = 4

\* the DCRDR write failed
C27_WitnessFailed ==
  /\ lastop.op.name = "write_core_reg" /\ ~log[1].ok
  /\ Len(log) = 1

\* C28: in reset_and_halt() the AIRCR write is made after C_DEBUGEN was read as
\* set or written with the key, and after VC_CORERESET was read as set or DEMCR
\* was written with it set; a DEMCR write after the AIRCR write has a DHCSR read
\* showing S_HALT between the two.
C28_ResetAndHaltOrdering ==
  lastop.op.name = "reset_and_halt" =>
    /\ Cardinality(WritesOf("AIRCR")) <= 1
    /\ \A a \in WritesOf("AIRCR") :
         /\ log[a].val = AircrSysResetReq
         /\ log[1].reg = "DHCSR" /\ ~log[1].w /\ log[1].ok
         /\ \/ c_debugen(log[1].val) /\ WritesOf("DHCSR") = {}
            \/ /\ WritesOf("DHCSR") = {2}
               /\ log[2].ok
               /\ c_debugen(log[2].val) /\ Field(log[2].val, 31, 16) = 41055
         /\ \E r \in ReadsOf("DEMCR") :
              /\ r < a
              /\ \/ vc_corereset(log[r].val)
                    /\ \A w \in WritesOf("DEMCR") : w > a
                 \/ /\ (r + 1) \in WritesOf("DEMCR")
                    /\ r + 1 < a
                    /\ log[r + 1].ok
                    /\ log[r + 1].val = log[r].val \cup {0}
         /\ \A w \in WritesOf("DEMCR") :
              w > a => /\ log[a].ok
                       /\ \E h \in HaltReads : a < h /\ h < w

\* both bits had to be written first, and DEMCR was restored after the halt
C28_Witness ==
  /\ lastop.op.name = "reset_and_halt" /\ lastop.err = Ok
  /\ ~pre.u.c_debugen /\ ~vc_corereset(pre.u.demcr)
  /\ WritesOf("DHCSR") = {2}
  /\ WritesOf("AIRCR") = {5}
  /\ \E w \in WritesOf("DEMCR") : w > 5

\* ================================================ properties, flash writer
\* the accesses download_hex made for its record number k
AccessesOf(k) == {i \in 1..Len(log) : log[i].rec = k}
BlockWrites == {i \in 1..Len(log) : log[i].block}
ErasePageWrites == {i \in 1..Len(log) : log[i].addr = NVMC_ERASEPAGE}
ConfigWrites == {i \in 1..Len(log) : log[i].addr = NVMC_CONFIG}
ReadyReads == {i \in 1..Len(log) : log[i].addr = NVMC_READY}

\* (a << 16) of the last ExtendedLinearAddress(a) before record k, 0 without one
LinearBefore(k) ==
  LET S == {j \in 1..(k - 1) : dl.recs[j].type = "ExtendedLinearAddress"}
  IN  IF S = {} THEN 0 ELSE dl.recs[MaxOf(S)].address * 65536

\* linear | offset of the Data record k: the low 16 bits of linear are 0
AddrOf(k) == LinearBefore(k) + dl.recs[k].offset

\* C21: the words of a Data record are written at linear | offset, linear being
\* (a << 16) of the last ExtendedLinearAddress(a) before it (0 without one); the
\* page at that address is erased first if and only if it is a multiple of the
\* page size; records other than Data cause no access; no record is taken after
\* EndOfFile.
C21_FlashAddressing ==
  /\ \A i \in 1..Len(log) :
       /\ log[i].rec \in 1..Len(dl.recs)
       /\ dl.recs[log[i].rec].type = "Data"
       /\ log[i].block => log[i].addr = AddrOf(log[i].rec)
       /\ i \in ErasePageWrites =>
            /\ log[i].val = AddrOf(log[i].rec)
            /\ AddrOf(log[i].rec) % dl.page_size = 0
  /\ \A k \in 1..Len(dl.recs) :
       /\ (dl.recs[k].type = "Data" /\ AddrOf(k) % dl.page_size = 0
             /\ AccessesOf(k) # {}) =>
            LET f == MinOf(AccessesOf(k))
            IN  /\ log[f].addr = NVMC_CONFIG /\ log[f].val = EEN
                /\ log[f].ok => (f + 1) \in ErasePageWrites
                /\ \A b \in BlockWrites \cap AccessesOf(k) :
                     /\ log[f + 1].ok
                     /\ b > f + 1
       /\ (dl.recs[k].type = "Data" /\ k < Len(dl.recs)) =>
            BlockWrites \cap AccessesOf(k) # {}
       /\ dl.recs[k].type = "EndOfFile" =>
            (k = Len(dl.recs) /\ dl.pc = "returned")

\* after ExtendedLinearAddress(1), a record at offset 0 is written at 0x1_0000
\* after the erase of that page
C21_Witness ==
  /\ dl.page_size = 1024
  /\ Len(dl.recs) = 2
  /\ dl.recs[1] = ExtendedLinearAddress(1)
  /\ dl.recs[2] = Data(0, <<1, 2, 3, 4>>)
  /\ Len(log) = 5
  /\ log[2].addr = NVMC_ERASEPAGE /\ log[2].val = 65536
  /\ log[5].block /\ log[5].addr = 65536 /\ log[5].ok

\* the chunk of 1 to 3 bytes as a word: the bytes in the low positions, 0xFF above
PaddedWord(chunk) ==
  PreadU32(chunk \o [j \in 1..(4 - Len(chunk)) |-> 255])

\* C22: a Data record whose length is not a multiple of 4 is written as
\* ceil(len / 4) words, the last being the remaining bytes padded with 0xFF, and
\* download_hex goes on to the next record without a panic.
C22_FlashPadding ==
  \A k \in 1..Len(dl.recs) :
    (dl.recs[k].type = "Data" /\ Len(dl.recs[k].value) % 4 # 0) =>
      /\ ~(dl.pc = "panicked" /\ k = Len(dl.recs))
      /\ \A b \in BlockWrites \cap AccessesOf(k) :
           /\ Len(log[b].val) = (Len(dl.recs[k].value) + 3) \div 4
           /\ log[b].val[Len(log[b].val)] =
                PaddedWord(Chunks(dl.recs[k].value)[Len(log[b].val)])
      /\ k < Len(dl.recs) => BlockWrites \cap AccessesOf(k) # {}

\* a * 16 of the last ExtendedSegmentAddress(a) before record k, 0 without one
SegmentBefore(k) ==
  LET S == {j \in 1..(k - 1) : dl.recs[j].type = "ExtendedSegmentAddress"}
  IN  IF S = {} THEN 0 ELSE dl.recs[MaxOf(S)].address * 16

\* C23: ExtendedSegmentAddress(a) makes seg = a * 16, whatever a is, without a
\* fault, and the Data records that follow with a linear base of 0 are written at
\* seg + offset.
C23_SegmentHonoured ==
  /\ \A k \in 1..Len(dl.recs) :
       dl.recs[k].type = "ExtendedSegmentAddress" =>
         /\ ~(dl.pc = "panicked" /\ k = Len(dl.recs))
         /\ k = Len(dl.recs) => dl.seg = dl.recs[k].address * 16
  /\ \A b \in BlockWrites :
       LinearBefore(log[b].rec) = 0 =>
         log[b].addr = SegmentBefore(log[b].rec) + dl.recs[log[b].rec].offset

\* the last value written to CONFIG before access i
ConfigBefore(i) ==
  LET S == {j \in ConfigWrites : j < i /\ log[j].ok}
  IN  IF S = {} THEN 0 ELSE log[MaxOf(S)].val

\* C29: an erase writes CONFIG = EEN, then ERASEPAGE, then reads READY until it
\* reads non-zero; a record write writes CONFIG = WEN right before the data
\* words; so no data word is written while CONFIG holds EEN, and none of a
\* record that has an erase before READY was read as non-zero.
C29_FlashOrdering ==
  /\ \A i \in ErasePageWrites :
       /\ i > 1 /\ log[i].w
       /\ (i - 1) \in ConfigWrites /\ log[i - 1].val = EEN /\ log[i - 1].ok
       /\ log[i - 1].rec = log[i].rec
  /\ \A i \in ReadyReads :
       /\ i > 1 /\ ~log[i].w
       /\ log[i - 1].ok /\ log[i - 1].rec = log[i].rec
       /\ \/ (i - 1) \in ErasePageWrites
          \/ (i - 1) \in ReadyReads /\ log[i - 1].val = 0
       /\ (i < Len(log) /\ log[i].ok /\ log[i].val = 0) => (i + 1) \in ReadyReads
       /\ (i < Len(log) /\ log[i].ok /\ log[i].val # 0) =>
            ((i + 1) \in ConfigWrites /\ log[i + 1].val = WEN)
       /\ i < Len(log) => log[i].ok
  /\ \A i \in ConfigWrites : log[i].w /\ log[i].val \in {WEN, EEN}
  /\ \A b \in BlockWrites :
       /\ b > 1 /\ (b - 1) \in ConfigWrites
       /\ log[b - 1].val = WEN /\ log[b - 1].ok /\ log[b - 1].rec = log[b].rec
       /\ ConfigBefore(b) = WEN
       /\ ErasePageWrites \cap AccessesOf(log[b].rec) # {} =>
            \E r \in ReadyReads \cap AccessesOf(log[b].rec) :
              r < b /\ log[r].ok /\ log[r].val # 0

\* a page was erased, found busy once, and then written
C29_Witness ==
  /\ Len(log) = 6
  /\ log[1].addr = NVMC_CONFIG /\ log[1].val = EEN
  /\ log[2].addr = NVMC_ERASEPAGE
  /\ log[3].addr = NVMC_READY /\ log[3].val = 0
  /\ log[4].addr = NVMC_READY /\ log[4].val = 1
  /\ log[5].addr = NVMC_CONFIG /\ log[5].val = WEN
  /\ log[6].block /\ log[6].ok

\* C30: when READY has read as 0 in 100 consecutive polls of an erase, the erase
\* has ended and download_hex has returned a Timeout error.
C30_ReadyPollBounded ==
  dl.polls >= PollLimit =>
    /\ dl.pc = "returned"
    /\ lastop.err = "Timeout"

\* ============================================== properties, power-up order
\* the k-th transaction of enter_debug_mode is as the code orders them
PowerUpStep(k) ==
  /\ log[k].port.dp
  /\ CASE k = 1 -> ~log[k].w /\ log[k].addr = 0
       [] k = 2 -> ~log[k].w /\ log[k].addr = 0
       [] k = 3 -> log[k].w /\ log[k].addr = 0 /\ log[k].val = {4, 3, 2, 1}
       [] k = 4 -> log[k].w /\ log[k].addr = 8 /\ dp_bank_sel(log[k].val) = 0
       [] k = 5 -> log[k].w /\ log[k].addr = 4 /\ {30, 28} \subseteq log[k].val
       [] k = 6 -> ~log[k].w /\ log[k].addr = 4

PowerUpAcknowledged ==
  /\ Len(log) >= 6
  /\ \A k \in 1..6 : log[k].ok
  /\ csyspwrupack(log[6].val) /\ cdbgpwrupack(log[6].val)

\* C25: a new() that powers the debug port up issues, in this order, the DPIDR
\* read that gives the version (and the DPIDR read through the gated path), the
\* ABORT write with exactly the four clear bits, the SELECT write with dp_bank 0,
\* the CTRL/STAT write with both power-up requests and the CTRL/STAT read; an AP
\* register is accessed only after that read showed both acknowledge bits.
C25_PowerUpOrdering ==
  (lastop.op.name = "new" /\ has_dap /\ ~pre.s.initialized) =>
    /\ Len(log) >= 1
    /\ \A k \in 1..6 : k <= Len(log) => PowerUpStep(k)
    /\ \A k \in 1..5 : (k <= Len(log) /\ ~log[k].ok) => Len(log) = k
    /\ (Len(log) >= 2 /\ log[1].ok) =>
         state.debug_port_version = VersionFrom(Field(log[1].val, 15, 12))
    /\ \A i \in 1..Len(log) :
         ~log[i].port.dp => (i > 6 /\ PowerUpAcknowledged)
    /\ lastop.err = Ok => PowerUpAcknowledged

\* the power-up was acknowledged and an AP register was then read
C25_Witness ==
  /\ lastop.op.name = "new" /\ has_dap /\ ~pre.s.initialized
  /\ lastop.err = Ok
  /\ PowerUpAcknowledged
  /\ Len(log) > 6
  /\ ~log[7].port.dp

\* ============================================== properties, memory round trip
RoundTripCase ==
  /\ mem.wr.err = Ok
  /\ mem.wr.halted
  /\ mem.rd.err = Ok
  /\ mem.rd.addr = mem.wr.addr
  /\ mem.rd.n = Len(mem.wr.data)

\* C24: with the core halted when write_32(A, B) is called, a successful
\* read_32(A, len(B)) that follows a successful write_32 returns exactly B, word
\* for word
C24_MemoryRoundTrip == RoundTripCase => mem.rd.data = mem.wr.data

\* ============================================== properties, port encoding
\* C38: a u16 converted to PortType and back is itself, and it is DebugPort
\* exactly for 0xFFFF; DebugPort and every AccessPort(n) with n # 0xFFFF
\* converted to u16 and back is itself.
C38_PortRoundTrip ==
  \A i \in 1..Len(log) :
    /\ log[i].conv = "PortType::from" =>
         /\ log[i].back = log[i].w
         /\ log[i].p = DebugPort <=> log[i].w = 65535
    /\ (log[i].conv = "u16::from" /\ (log[i].p.dp \/ log[i].p.n # 65535)) =>
         log[i].back = log[i].p

\* 0xFFFF was decoded
C38_Witness ==
  /\ Len(log) = 1
  /\ log[1].conv = "PortType::from"
  /\ log[1].w = 65535
  /\ log[1].p = DebugPort
  /\ log[1].back = 65535

\* ============================================== properties, SWO
\* the header of the response (status byte and count) lies in the buffer
SwoHeaderIn(e) == e.offset + 3 <= Len(e.buffer)
SwoCount(e) == e.buffer[e.offset + 2] + 256 * e.buffer[e.offset + 3]

\* C39: from_bytes returns ShortRead when offset + 3 + count exceeds the length
\* of the buffer (so also when the header itself does not fit), and otherwise
\* the status bits 0, 6, 7 of the byte at offset and exactly the count bytes
\* after the header, in order.
C39_SwoDataBounds ==
  \A i \in 1..Len(log) :
    log[i].conv = "DataResponse::from_bytes" =>
      IF ~SwoHeaderIn(log[i]) \/ log[i].offset + 3 + SwoCount(log[i]) > Len(log[i].buffer)
      THEN log[i].res.err = "ShortRead"
      ELSE /\ log[i].res.err = Ok
           /\ log[i].res.status.active = (log[i].buffer[log[i].offset + 1] % 2 = 1)
           /\ log[i].res.status.error = ((log[i].buffer[log[i].offset + 1] \div 64) % 2 = 1)
           /\ log[i].res.status.overrun = ((log[i].buffer[log[i].offset + 1] \div 128) % 2 = 1)
           /\ Len(log[i].res.data) = SwoCount(log[i])
           /\ \A k \in 1..SwoCount(log[i]) :
                log[i].res.data[k] = log[i].buffer[log[i].offset + 3 + k]

\* the same, for the responses whose header lies in the buffer
SwoDataBoundsWithHeader ==
  \A i \in 1..Len(log) :
    (log[i].conv = "DataResponse::from_bytes" /\ SwoHeaderIn(log[i])) =>
      IF log[i].offset + 3 + SwoCount(log[i]) > Len(log[i].buffer)
      THEN log[i].res.err = "ShortRead"
      ELSE /\ log[i].res.err = Ok
           /\ log[i].res.status = TraceStatus_from(log[i].buffer[log[i].offset + 1])
           /\ log[i].res.data = SubSeq(log[i].buffer, log[i].offset + 4,
                                       log[i].offset + 3 + SwoCount(log[i]))

\* ============================================== properties, capability probe
\* the entries of ap_information for memory AP ap
ProbeEntries(ap) ==
  {i \in 1..Len(state.ap_information) :
     /\ state.ap_information[i].kind = "MemoryAp"
     /\ state.ap_information[i].port_number = ap}

\* a new() that returned Ok has run ap_supports_only_32bit_access on memory AP ap
ProbedBy(ap) ==
  /\ lastop.op.name = "new" /\ lastop.err = Ok
  /\ has_dap /\ ~pre.s.initialized
  /\ ProbeEntries(ap) # {}

\* C31: after the 8-bit capability probe of a new() that succeeded, the CSW of
\* the memory AP holds the value it had before the probe (SIZE is not left at
\* U8); the flag recorded is whether the SIZE read back differs from U8.
C31_CswRestored ==
  \A ap \in 0..(MaxAps - 1) :
    ProbedBy(ap) =>
      /\ target.csw[ap] = pre.t.csw[ap]
      /\ \A i \in ProbeEntries(ap) :
           state.ap_information[i].only_32bit_data_size = (CswSize(target.csw[ap]) # SizeU8)

\* the flag alone
ProbeFlagOnly ==
  \A ap \in 0..(MaxAps - 1) :
    ProbedBy(ap) =>
      \A i \in ProbeEntries(ap) :
        state.ap_information[i].only_32bit_data_size = (CswSize(target.csw[ap]) # SizeU8)

\* ============================================== properties, SELECT cache
\* C32: in every reachable state the cached (current_apsel, current_apbanksel,
\* current_dpbanksel) are the fields of the SELECT value the target holds, the
\* last one written to it; so also after a new() that failed and was called
\* again.
C32_SelectCacheCoherent ==
  has_dap =>
    /\ state.current_apsel = ap_sel(target.select)
    /\ state.current_apbanksel = ap_bank_sel(target.select)
    /\ state.current_dpbanksel = dp_bank_sel(target.select)

\* the same while every SELECT write made so far was taken by the target
SelectCoherentWithoutFailedSelect ==
  (has_dap /\ ~marks.dirty /\ ~pre.m.dirty) =>
    /\ state.current_apsel = ap_sel(target.select)
    /\ state.current_apbanksel = ap_bank_sel(target.select)
    /\ state.current_dpbanksel = dp_bank_sel(target.select)

\* reset_and_halt() has written DEMCR with VC_CORERESET set, which it had read clear
ArmedVectorCatch ==
  /\ lastop.op.name = "reset_and_halt"
  /\ ~vc_corereset(pre.u.demcr)
  /\ \E w \in WritesOf("DEMCR") : log[w].ok /\ vc_corereset(log[w].val)

\* C33: when reset_and_halt() fails after it has written DEMCR with VC_CORERESET
\* set (a timeout of the wait for the halt, an error reading or writing XPSR),
\* DEMCR holds its value of before the call again when the error is returned.
C33_DemcrRestoredOnFailure ==
  (ArmedVectorCatch /\ lastop.err # Ok) => mcu.demcr = pre.u.demcr

\* what the code gives: a failed call that had armed the vector catch made no
\* further write to DEMCR, unless the failure is the read of PC after the restore
FailedCallLeavesVectorCatch ==
  (ArmedVectorCatch /\ lastop.err # Ok /\ Cardinality(WritesOf("DEMCR")) = 1)
    => vc_corereset(mcu.demcr)

\* the number, among the DHCSR reads of the call, of the one at log[i]
DhcsrReadNo(i) == Cardinality({j \in 1..i : log[j].reg = "DHCSR" /\ ~log[j].w})

\* the read of DHCSR that ended the wait for the halt
EndOfWait == MinOf({h \in HaltReads : h > MinOf(WritesOf("AIRCR"))})

\* the core was halted when reset_and_halt() was called, and the call succeeded
ResetOfHaltedCore ==
  ResetAndHaltSucceeded /\ s_halt(log[1].val) /\ c_debugen(log[1].val)

\* C34: when the core is halted at the time of the call, reset_and_halt() succeeds
\* only after the target has taken the reset: the DHCSR read that ends the wait
\* for the halt is made after the reset was taken, not while DHCSR still shows the
\* S_HALT of before the reset.
C34_NoStaleHalt ==
  ResetOfHaltedCore => DhcsrReadNo(EndOfWait) > lastop.op.n

\* a successful status() on a core that was cached as halted and that DHCSR
\* shows halted and not sleeping
StatusWhileHalted ==
  /\ lastop.op.name = "status" /\ lastop.err = Ok
  /\ is_halted(pre.k.current_state)
  /\ Len(log) >= 1
  /\ s_halt(log[1].val) /\ ~s_sleep(log[1].val)

ReasonReplaced ==
  /\ StatusWhileHalted
  /\ log[2].val = {4}
  /\ pre.k.current_state = Halted("BKPT")
  /\ core.current_state = Halted("External")

\* C36: after a successful enable_breakpoints(s), hw_breakpoints_enabled() gives s,
\* the ENABLE bit the call wrote to FP_CTRL together with KEY; after
\* enable_breakpoints(false) it gives false.
C36_EnabledFlagTracksFpb ==
  (lastop.op.name = "enable_breakpoints" /\ lastop.err = Ok) =>
    /\ Len(log) = 1
    /\ log[1].reg = "FP_CTRL" /\ log[1].w /\ 1 \in log[1].val
    /\ (0 \in log[1].val) = (lastop.op.n = 1)
    /\ core.hw_breakpoints_enabled = (0 \in log[1].val)

\* what the code gives: the flag is set by every successful call, and it says
\* what was written only when the call enabled the unit
EnabledFlagSetByEveryCall ==
  (lastop.op.name = "enable_breakpoints" /\ lastop.err = Ok) =>
    /\ log[1].reg = "FP_CTRL" /\ log[1].w /\ 1 \in log[1].val
    /\ (0 \in log[1].val) = (lastop.op.n = 1)
    /\ core.hw_breakpoints_enabled

\* the base of the flash page that holds the address a
PageOf(a) == (a \div dl.page_size) * dl.page_size
\* the page at base p was erased before the access i of the download
ErasedBefore(p, i) ==
  \E e \in ErasePageWrites : e < i /\ log[e].ok /\ log[e].val = p

\* C37: every word download_hex has written to flash lies in a page for which a
\* page erase was issued earlier in the same download, also when the Data record
\* starts inside a page that no earlier record started at the boundary of.
C37_NoUnerasedWrite ==
  \A b \in BlockWrites :
    log[b].ok =>
      \A j \in 1..Len(log[b].val) : ErasedBefore(PageOf(log[b].addr + 4 * (j - 1)), b)

\* what the code gives: the page a record starts in was erased for that record
\* when the record starts at the boundary of the page
ErasedWhenAligned ==
  \A b \in BlockWrites :
    (log[b].ok /\ log[b].addr % dl.page_size = 0) =>
      \E e \in ErasePageWrites \cap AccessesOf(log[b].rec) :
        e < b /\ log[e].ok /\ log[e].val = log[b].addr

\* ============================================ properties, block AP accesses
RepeatedWrite == lastop.op.name = "write_ap_register_repeated"
RepeatedRead == lastop.op.name = "read_ap_register_repeated"
\* the SELECT writes and the data transfers of the call
SelectWritesOfCall ==
  {i \in 1..Len(log) : log[i].port.dp /\ log[i].w /\ log[i].addr = 8}
DataTransfers == {i \in 1..Len(log) : ~log[i].port.dp}
\* the element of the values array that the transfer log[i] is for
ElementOf(i) == i - Cardinality(SelectWritesOfCall)

\* C40: a ..._repeated call emits at most one SELECT write, as its first
\* transaction, and nothing else on the DP; its data transfers are all at
\* (AccessPort(port), R::ADDRESS), one for each element of values in the order of
\* the array; a transfer that fails is the last one, the elements before it
\* having been transferred and those after it not.
C40_BlockSelectsOnceInOrder ==
  (RepeatedWrite \/ RepeatedRead) =>
    /\ Cardinality(SelectWritesOfCall) <= 1
    /\ \A i \in 1..Len(log) : log[i].port.dp => (i = 1 /\ i \in SelectWritesOfCall)
    /\ \A i \in DataTransfers :
         /\ log[i].port = AccessPort(lastop.op.port)
         /\ log[i].addr = AP_ADDRESS(lastop.op.reg)
         /\ log[i].w = RepeatedWrite
         /\ ElementOf(i) \in 1..lastop.op.n
         /\ RepeatedWrite => log[i].val = BitsOf(ElementOf(i), 0)
         /\ (RepeatedRead /\ log[i].ok) => lastop.vals[ElementOf(i)] = log[i].val
    /\ \A i \in 1..Len(log) : ~log[i].ok => (i = Len(log) /\ lastop.err # Ok)
    /\ lastop.err = Ok => Cardinality(DataTransfers) = lastop.op.n
    /\ lastop.err # Ok => (Len(log) >= 1 /\ ~log[Len(log)].ok)

\* a block of two words written after the SELECT write that the call needed
C40_Witness ==
  /\ RepeatedWrite /\ lastop.err = Ok
  /\ Len(log) = 3
  /\ SelectWritesOfCall = {1}
  /\ log[2].val = {0} /\ log[3].val = {1}
  /\ log[2].port = AccessPort(lastop.op.port) /\ log[2].addr = 12

\* the first of two reads succeeded, the second failed and ended the block
BlockStoppedAtFailure ==
  /\ RepeatedRead /\ lastop.err # Ok
  /\ lastop.op.n = 2
  /\ Cardinality(DataTransfers) = 2
  /\ Len(lastop.vals) = 1

====
